---- MODULE Spec2Model ----
(***************************************************************************)
(* Model of ordo (src/src/main.rs): ranked-choice voting rooms.            *)
(*                                                                         *)
(* main serves the modules rooms, voters and events (tables new_rooms and  *)
(* new_voters, events published through events::Broadcasters).  The        *)
(* module old_rooms (tables rooms, voters and votes, four maps of event    *)
(* senders) is built by main and never served: its handlers are modelled   *)
(* as the filter old_rooms::routes on its own, apart from what main runs.  *)
(*                                                                         *)
(* A request handler runs as the requests of one connection pool do: one   *)
(* action per awaited statement, the request waiting in `pending` between  *)
(* two of them, interleaved with the other requests, with the expiry       *)
(* tasks and with what the handlers hand to tokio::spawn.  Every statement *)
(* takes the outcome of the store as an input: store_ok is FALSE when the  *)
(* statement returns an error.                                             *)
(***************************************************************************)
EXTENDS Integers, Sequences, FiniteSets, TLC

\* ------------------------------------------------------------------ bounds
MaxRooms == 2
MaxVoters == 2
MaxOptions == 2
MaxTasks == 1
\* Rows inserted into new_rooms and new_voters together.
MaxRows == 3

\* The strings a request may carry as a room name.
Names == {"", "Lunch"}

\* The strings a request may carry as an option, listed in the order of
\* Rust's Ord for String (bytewise): "" < "A" < "B".
OptionStrings == <<"", "A", "B">>

StringSet == {OptionStrings[i] : i \in 1..Len(OptionStrings)}

\* Sequences over S of length 0..n.
SeqsUpTo(S, n) == UNION {[1..k -> S] : k \in 0..n}

\* ------------------------------------------------------------ pure helpers

\* Position of a string in the bytewise order.
StrRank(s) == CHOOSE i \in 1..Len(OptionStrings) : OptionStrings[i] = s

\* String's Ord: a <= b.
StrLe(a, b) == StrRank(a) <= StrRank(b)

\* One insertion of x into the sorted sequence s, after every element <= x.
SortInsert(s, x) ==
    LET k == Cardinality({i \in 1..Len(s) : StrLe(s[i], x)})
    IN  SubSeq(s, 1, k) \o <<x>> \o SubSeq(s, k + 1, Len(s))

RECURSIVE SortFrom(_, _)
SortFrom(v, acc) ==
    IF v = <<>> THEN acc ELSE SortFrom(Tail(v), SortInsert(acc, Head(v)))

\* Vec<String>::sort(): ascending, stable.
sort(v) == SortFrom(v, <<>>)

\* serde_json text of a Vec<String>, as its token sequence:
\* "[" then the quoted strings separated by "," then "]".
LBracket == <<"[", "">>
RBracket == <<"]", "">>
Comma == <<",", "">>
JsonString(s) == <<"str", s>>

RECURSIVE JsonItems(_)
JsonItems(v) ==
    IF v = <<>> THEN <<>>
    ELSE IF Len(v) = 1 THEN <<JsonString(v[1])>>
    ELSE <<JsonString(v[1]), Comma>> \o JsonItems(Tail(v))

\* serde_json::to_string(&Vec<String>)
to_string(v) == <<LBracket>> \o JsonItems(v) \o <<RBracket>>

\* serde_json::from_str::<Vec<String>>: the string tokens between the
\* brackets, in order.
from_str(json) ==
    LET inner == SubSeq(json, 2, Len(json) - 1)
        n == (Len(inner) + 1) \div 2
    IN  [i \in 1..n |-> inner[2 * i - 1][2]]

\* An absent form field or cookie (Option::None) is the empty set, a present
\* one the singleton of its value.
None == {}
Some(x) == {x}

\* utils::generate_ulid(): a fresh token, never equal to an earlier one.
\* The token names what it was generated for.
AdminCode(room_id) == <<"admin", room_id>>
VoterCode(voter_id) == <<"voter", voter_id>>
BogusCode == <<"bogus", 0>>
NoCode == <<"none", 0>>

\* The codes a request may present in a cookie.
Codes ==
    {AdminCode(r) : r \in 1..MaxRooms} \cup {VoterCode(v) : v \in 1..MaxVoters}
        \cup {BogusCode}

\* --------------------------------------------------------------- RoomEvents
NoEvent == [kind |-> "None", n |-> 0, options |-> <<>>]
NewVoter(voter_id) == [kind |-> "NewVoter", n |-> voter_id, options |-> <<>>]
NewVoterCount(count) == [kind |-> "NewVoterCount", n |-> count, options |-> <<>>]
VoterApproved(voter_id) == [kind |-> "VoterApproved", n |-> voter_id, options |-> <<>>]
VoteStarted(options) == [kind |-> "VoteStarted", n |-> 0, options |-> options]
VoteEnded == [kind |-> "VoteEnded", n |-> 0, options |-> <<>>]
NewVote(voter_id) == [kind |-> "NewVote", n |-> voter_id, options |-> <<>>]
NewVoteCount(count) == [kind |-> "NewVoteCount", n |-> count, options |-> <<>>]

\* The spawned vote task's pending "SELECT count ... options NOT NULL".
CountVotesQuery == [kind |-> "CountVotesQuery", n |-> 0, options |-> <<>>]

VARIABLES
    new_rooms,      \* table new_rooms: id -> [name, options (JSON), admin_code, status]
    new_voters,     \* table new_voters: id -> [voter_code, room_id, approved, options]
    rooms_rowid,    \* last_insert_rowid of new_rooms
    voters_rowid,   \* last_insert_rowid of new_voters
    timers,         \* rooms whose spawned expiry task still sleeps
    tasks,          \* spawned publishing tasks: [room_id, steps]
    map,            \* Broadcasters.map: room id -> the room's Sender (a channel)
    subs,           \* the open /listen streams: [room_id, chan, admin, voter, queue, lagged]
    pending,        \* the requests that wait between two of their statements
    rooms,          \* old_rooms' table rooms: id -> [name, options (JSON), admin_code, status]
    voters,         \* old_rooms' table voters: id -> [room_id, approved]
    votes,          \* old_rooms' table votes: the rows [options (JSON), room_id, voter_id]
    id_to_count_tx, \* old_rooms' CountStreamIdToSenders: room -> what each sender was sent
    id_to_voter_tx, \* old_rooms' VotersStreamIdToSenders: room -> what each sender was sent
    id_to_room_tx,  \* old_rooms' RoomEventsIdToSenders: room -> what each sender was sent
    id_to_votes_tx, \* old_rooms' VotesIdToSenders: room -> what each sender was sent
    old_pending,    \* old_rooms' requests that wait between two of their statements
    last            \* the request or step served last, with its outcome

new_vars == <<new_rooms, new_voters, rooms_rowid, voters_rowid, timers, tasks, map, subs, pending>>
old_tables == <<rooms, voters, votes>>
old_senders == <<id_to_count_tx, id_to_voter_tx, id_to_room_tx, id_to_votes_tx>>
old_vars == <<old_tables, old_senders, old_pending>>
vars == <<new_vars, old_vars, last>>

\* -------------------------------------------------------------- the store

\* new_voters.options is NULL or a JSON text: the empty set or a singleton.
NULL == {}

\* SELECT ... FROM new_rooms WHERE id = ?1
RoomById(room_id) == {r \in DOMAIN new_rooms : r = room_id}

\* SELECT ... FROM new_rooms WHERE id = ?1 AND status = ?2
RoomByIdStatus(room_id, status) ==
    {r \in DOMAIN new_rooms : r = room_id /\ new_rooms[r].status = status}

\* SELECT ... FROM new_voters WHERE id = ?1
VoterById(voter_id) == {v \in DOMAIN new_voters : v = voter_id}

\* SELECT count(id) FROM new_voters WHERE room_id = ?1, on the table t.
CountVoters(t, room_id) == Cardinality({v \in DOMAIN t : t[v].room_id = room_id})

\* SELECT count(id) FROM new_voters WHERE room_id = ?1 AND options NOT NULL
CountVotes(room_id) ==
    Cardinality({v \in DOMAIN new_voters :
        new_voters[v].room_id = room_id /\ new_voters[v].options # NULL})

\* A table with one more row / one row changed / some rows deleted.
Insert(t, id, row) == [k \in DOMAIN t \cup {id} |-> IF k = id THEN row ELSE t[k]]
Delete(t, ids) == [k \in DOMAIN t \ ids |-> t[k]]

\* What the caller of a handler gets back: the rejection's name, "Ok", or
\* "Pending" while the request waits for its next statement; for a step of
\* a spawned task or a timer, which nobody calls, res is "Ok".  `before` is
\* what an UPDATE or DELETE found in the row it was to change, `out` the SSE
\* event a stream yields (its name and its data), `scores` the tally a page
\* shows.
NoData == [tag |-> "", n |-> 0, text |-> "", options |-> <<>>]
NoOutput == [event |-> <<"", 0>>, data |-> NoData]
Response(op, res) ==
    [op |-> op, res |-> res, before |-> "-", scores |-> <<>>, out |-> NoOutput]

Spawn(room_id, steps) == Append(tasks, [room_id |-> room_id, steps |-> steps])

\* A request between two statements: the handler, the statement it runs
\* next and its locals.
Request(op, pc) ==
    [op |-> op, pc |-> pc, room_id |-> 0, voter_id |-> 0, options |-> <<>>,
     json |-> <<>>, admin |-> None, voter |-> None, voter_code |-> None]

\* The requests left when request k has returned.
Finish(k) == SubSeq(pending, 1, k - 1) \o SubSeq(pending, k + 1, Len(pending))

\* main(): the pool is connected, the registry is empty, `routes` is served.
Init ==
    /\ new_rooms = <<>>
    /\ new_voters = <<>>
    /\ rooms_rowid = 0
    /\ voters_rowid = 0
    /\ timers = {}
    /\ tasks = <<>>
    /\ map = <<>>
    /\ subs = <<>>
    /\ pending = <<>>
    /\ rooms = <<>>
    /\ voters = <<>>
    /\ votes = <<>>
    /\ id_to_count_tx = <<>> /\ id_to_voter_tx = <<>>
    /\ id_to_room_tx = <<>> /\ id_to_votes_tx = <<>>
    /\ old_pending = <<>>
    /\ last = Response("init", "Ok")

\* ------------------------------------------------------------- mod rooms

\* create_room's validation without its loop over the options.
create_room_check_no_loop(name, options) ==
    IF name = "" THEN "EmptyName"
    ELSE IF options = <<>> THEN "NoOptions"
    ELSE "Ok"

\* The rejection create_room returns for a body, or "Ok".
create_room_check(name, options) ==
    IF name = "" THEN "EmptyName"
    ELSE IF options = <<>> THEN "NoOptions"
    ELSE IF \E i \in 1..Len(options) : options[i] = "" THEN "EmptyOption"
    ELSE "Ok"

\* create_room storing the options as the body gave them.
create_room_row_unsorted(name, options, admin_code) ==
    [name |-> name, options |-> to_string(options),
     admin_code |-> admin_code, status |-> 0]

\* The row create_room inserts.
create_room_row(name, options, admin_code) ==
    [name |-> name, options |-> to_string(sort(options)),
     admin_code |-> admin_code, status |-> 0]

\* create_room without its tokio::spawn of the expiry.
create_room_spawn_nothing(room_id) == timers

\* The sleeping expiry tasks once create_room has spawned the room's.
create_room_spawn(room_id) == timers \cup {room_id}

\* POST /rooms: the checks of the body, the INSERT, the spawn of the expiry
\* and the admin's page with its cookie.
create_room(name, options, store_ok) ==
    LET res == create_room_check(name, options)
        room_id == rooms_rowid + 1
    IN  IF res # "Ok" \/ ~store_ok
        THEN /\ last' = Response("create_room",
                    IF res # "Ok" THEN res ELSE "InternalServerError")
             /\ UNCHANGED <<new_vars, old_vars>>
        ELSE /\ rooms_rowid < MaxRooms
             /\ rooms_rowid + voters_rowid < MaxRows
             /\ new_rooms' = Insert(new_rooms, room_id,
                    create_room_row(name, options, AdminCode(room_id)))
             /\ rooms_rowid' = room_id
             /\ timers' = create_room_spawn(room_id)
             /\ last' = Response("create_room", "Ok")
             /\ UNCHANGED <<new_voters, voters_rowid, tasks, map, subs, pending,
                            old_vars>>

\* The expiry's first DELETE keyed by the voters' own id.
expire_delete_voters_by_id(room_id) ==
    Delete(new_voters, {v \in DOMAIN new_voters : v = room_id})

\* DELETE FROM new_voters WHERE room_id = ?1
expire_delete_voters(room_id) ==
    Delete(new_voters, {v \in DOMAIN new_voters : new_voters[v].room_id = room_id})

\* The expiry's second DELETE matching no row.
expire_delete_room_no_row(room_id) == new_rooms

\* DELETE FROM new_rooms WHERE id = ?1
expire_delete_room(room_id) == Delete(new_rooms, {r \in DOMAIN new_rooms : r = room_id})

\* The task create_room spawns, once its sleep of 3600 s is over: one
\* transaction deleting the room's voters and the room; its result is only
\* logged, and a transaction the store fails leaves the tables as they were.
expire(room_id, store_ok) ==
    /\ room_id \in timers
    /\ timers' = timers \ {room_id}
    /\ new_voters' = IF store_ok THEN expire_delete_voters(room_id) ELSE new_voters
    /\ new_rooms' = IF store_ok THEN expire_delete_room(room_id) ELSE new_rooms
    /\ last' = [Response("expire", IF store_ok THEN "Ok" ELSE "Err") EXCEPT !.before =
            IF room_id \notin DOMAIN new_rooms THEN "no row"
            ELSE IF new_rooms[room_id].status = 0 THEN "status 0" ELSE "status 1"]
    /\ UNCHANGED <<rooms_rowid, voters_rowid, tasks, map, subs, pending, old_vars>>

\* The rooms join_room finds for a room id.
join_room_select(room_id) == RoomById(room_id)

\* The row join_room inserts: approved and options take the column defaults.
join_room_row(room_id, voter_code) ==
    [voter_code |-> voter_code, room_id |-> room_id, approved |-> FALSE,
     options |-> NULL]

\* join_room's task sending the voter before the count.
join_room_events_reversed(voter_id, voter_count) ==
    <<NewVoter(voter_id), NewVoterCount(voter_count)>>

\* What join_room's spawned task sends, in order.
join_room_events(voter_id, voter_count) ==
    <<NewVoterCount(voter_count), NewVoter(voter_id)>>

\* The store's create for a voter: the row is there afterwards.  The tables
\* are declared outside the source; the store is taken as the specification
\* describes it, a plain create/find/update/delete backend.
create_voter(voter_id, row) == Insert(new_voters, voter_id, row)

\* POST /rooms/:id/join, its first statement: the SELECT of the room's name.
join_room_begin(room_id, store_ok) ==
    IF ~store_ok \/ join_room_select(room_id) = {}
    THEN /\ last' = Response("join_room", "InternalServerError")
         /\ UNCHANGED <<new_vars, old_vars>>
    ELSE /\ pending' = Append(pending,
                [Request("join_room", "insert") EXCEPT !.room_id = room_id])
         /\ last' = Response("join_room", "Pending")
         /\ UNCHANGED <<new_rooms, new_voters, rooms_rowid, voters_rowid, timers,
                        tasks, map, subs, old_vars>>

\* POST /rooms/:id/join, its second statement: the INSERT of the voter with
\* a new voter_code.  `before` tells whether the room was still there.
join_room_insert(k, store_ok) ==
    /\ k \in 1..Len(pending)
    /\ pending[k].op = "join_room" /\ pending[k].pc = "insert"
    /\ IF ~store_ok
       THEN /\ last' = Response("join_room", "InternalServerError")
            /\ pending' = Finish(k)
            /\ UNCHANGED <<new_voters, voters_rowid>>
       ELSE /\ voters_rowid < MaxVoters
            /\ rooms_rowid + voters_rowid < MaxRows
            /\ LET room_id == pending[k].room_id
                   voter_id == voters_rowid + 1
               IN  /\ new_voters' = create_voter(voter_id,
                            join_room_row(room_id, VoterCode(voter_id)))
                   /\ voters_rowid' = voter_id
                   /\ pending' = [pending EXCEPT ![k].pc = "count",
                                                 ![k].voter_id = voter_id]
                   /\ last' = [Response("join_room", "Pending") EXCEPT !.before =
                            IF room_id \in DOMAIN new_rooms THEN "room" ELSE "no room"]
    /\ UNCHANGED <<new_rooms, rooms_rowid, timers, tasks, map, subs, old_vars>>

\* POST /rooms/:id/join, its third statement and what follows: the count of
\* the room's voters, the spawn of the publishing task and the voter's page
\* with its cookie.
join_room_finish(k, store_ok) ==
    /\ k \in 1..Len(pending)
    /\ pending[k].op = "join_room" /\ pending[k].pc = "count"
    /\ IF ~store_ok
       THEN /\ last' = Response("join_room", "InternalServerError")
            /\ UNCHANGED tasks
       ELSE /\ Len(tasks) < MaxTasks
            /\ tasks' = Spawn(pending[k].room_id,
                    join_room_events(pending[k].voter_id,
                                     CountVoters(new_voters, pending[k].room_id)))
            /\ last' = Response("join_room", "Ok")
    /\ pending' = Finish(k)
    /\ UNCHANGED <<new_rooms, new_voters, rooms_rowid, voters_rowid, timers, map,
                   subs, old_vars>>

\* start_vote's query without its status filter.
start_vote_select_any_status(room_id) == RoomById(room_id)

\* The rooms start_vote finds for a room id.
start_vote_select(room_id) == RoomByIdStatus(room_id, 0)

\* The rejection start_vote returns from its SELECT and its check, or "Ok".
start_vote_check(room_id, admin_code) ==
    IF start_vote_select(room_id) = {} THEN "InternalServerError"
    ELSE IF admin_code # new_rooms[room_id].admin_code THEN "NotAnAdmin"
    ELSE "Ok"

\* start_vote's statement deleting the room instead of updating it.
start_vote_update_delete(room_id) == Delete(new_rooms, {room_id})

\* start_vote's UPDATE writing the status after the one meant.
start_vote_update_status_2(room_id) ==
    [new_rooms EXCEPT ![room_id].status = 2]

\* start_vote's UPDATE matching no row.
start_vote_update_no_row(room_id) == new_rooms

\* UPDATE new_rooms SET status = 1 WHERE id = ?1, the row being there.
start_vote_update(room_id) ==
    [new_rooms EXCEPT ![room_id].status = 1]

\* start_vote's UPDATE as the store runs it: WHERE id = ?1 matches the room
\* whatever its status, and no row when the room is gone.
start_vote_execute(room_id) ==
    IF room_id \in DOMAIN new_rooms THEN start_vote_update(room_id) ELSE new_rooms

\* What start_vote's spawned task sends, from the options it read.
start_vote_events(options) == <<VoteStarted(from_str(options))>>

\* PUT /rooms/:id/start, its first statement: the SELECT of the room with
\* status 0, and the comparison of the cookie.
start_vote_begin(room_id, admin_code, store_ok) ==
    LET res == IF store_ok THEN start_vote_check(room_id, admin_code)
               ELSE "InternalServerError"
    IN  IF res # "Ok"
        THEN /\ last' = Response("start_vote", res)
             /\ UNCHANGED <<new_vars, old_vars>>
        ELSE /\ pending' = Append(pending,
                    [Request("start_vote", "update") EXCEPT
                        !.room_id = room_id,
                        !.json = new_rooms[room_id].options])
             /\ last' = Response("start_vote", "Pending")
             /\ UNCHANGED <<new_rooms, new_voters, rooms_rowid, voters_rowid,
                            timers, tasks, map, subs, old_vars>>

\* PUT /rooms/:id/start, its second statement: the UPDATE.  `before` tells
\* what the UPDATE found.
start_vote_write(k, store_ok) ==
    /\ k \in 1..Len(pending)
    /\ pending[k].op = "start_vote" /\ pending[k].pc = "update"
    /\ IF ~store_ok
       THEN /\ last' = Response("start_vote", "InternalServerError")
            /\ pending' = Finish(k)
            /\ UNCHANGED new_rooms
       ELSE /\ new_rooms' = start_vote_execute(pending[k].room_id)
            /\ pending' = [pending EXCEPT ![k].pc = "voters"]
            /\ last' = [Response("start_vote", "Pending") EXCEPT !.before =
                    IF pending[k].room_id \notin DOMAIN new_rooms THEN "no row"
                    ELSE IF new_rooms[pending[k].room_id].status = 0 THEN "status 0"
                    ELSE "status 1"]
    /\ UNCHANGED <<new_voters, rooms_rowid, voters_rowid, timers, tasks, map,
                   subs, old_vars>>

\* PUT /rooms/:id/start, its third statement and what follows: the SELECT
\* of the room's approved voters, the spawn of the publishing task and the
\* admin's voting page.
start_vote_finish(k, store_ok) ==
    /\ k \in 1..Len(pending)
    /\ pending[k].op = "start_vote" /\ pending[k].pc = "voters"
    /\ IF ~store_ok
       THEN /\ last' = Response("start_vote", "InternalServerError")
            /\ UNCHANGED tasks
       ELSE /\ Len(tasks) < MaxTasks
            /\ tasks' = Spawn(pending[k].room_id, start_vote_events(pending[k].json))
            /\ last' = Response("start_vote", "Ok")
    /\ pending' = Finish(k)
    /\ UNCHANGED <<new_rooms, new_voters, rooms_rowid, voters_rowid, timers, map,
                   subs, old_vars>>

\* PUT /rooms/:id/end, the request of the admin page's END VOTE button: no
\* served filter has this path, every route rejects with not_found and
\* handle_rejection answers NOT_FOUND.
end_vote_url(room_id, admin_code) ==
    /\ last' = Response("end_vote", "NOT_FOUND")
    /\ UNCHANGED <<new_vars, old_vars>>

\* ------------------------------------------------------------ mod voters

\* approve_voter's room query keyed by the id of the request path.
approve_voter_select_by_path_id(voter_id) ==
    {r \in DOMAIN new_rooms : \E v \in VoterById(voter_id) : r = v}

\* SELECT id, admin_code FROM new_rooms
\* WHERE id = (SELECT room_id FROM new_voters WHERE id = ?1)
approve_voter_select(voter_id) ==
    {r \in DOMAIN new_rooms :
        \E v \in VoterById(voter_id) : new_voters[v].room_id = r}

\* The rejection approve_voter returns from its SELECT and its check, or "Ok".
approve_voter_check(voter_id, admin_code) ==
    LET found == approve_voter_select(voter_id)
    IN  IF found = {} THEN "InternalServerError"
        ELSE IF \E r \in found : admin_code # new_rooms[r].admin_code
             THEN "NotAnAdmin"
        ELSE "Ok"

\* approve_voter's UPDATE flipping the flag.
approve_voter_update_toggle(voter_id) ==
    [new_voters EXCEPT ![voter_id].approved = ~@]

\* UPDATE new_voters SET approved = true WHERE id = ?1, the row being there.
approve_voter_update(voter_id) ==
    [new_voters EXCEPT ![voter_id].approved = TRUE]

\* approve_voter's UPDATE as the store runs it: no row when the voter is gone.
approve_voter_execute(voter_id) ==
    IF voter_id \in DOMAIN new_voters THEN approve_voter_update(voter_id)
    ELSE new_voters

\* What approve_voter's spawned task sends.
approve_voter_events(voter_id) == <<VoterApproved(voter_id)>>

\* PUT /voters/:id/approve, its first statement: the SELECT of the voter's
\* room, and the comparison of the cookie.
approve_voter_begin(voter_id, admin_code, store_ok) ==
    LET res == IF store_ok THEN approve_voter_check(voter_id, admin_code)
               ELSE "InternalServerError"
    IN  IF res # "Ok"
        THEN /\ last' = Response("approve_voter", res)
             /\ UNCHANGED <<new_vars, old_vars>>
        ELSE /\ pending' = Append(pending,
                    [Request("approve_voter", "update") EXCEPT
                        !.voter_id = voter_id,
                        !.room_id = new_voters[voter_id].room_id])
             /\ last' = Response("approve_voter", "Pending")
             /\ UNCHANGED <<new_rooms, new_voters, rooms_rowid, voters_rowid,
                            timers, tasks, map, subs, old_vars>>

\* PUT /voters/:id/approve, its second statement and what follows: the
\* UPDATE, whose error is returned with `?`, the spawn of the publishing
\* task and the disabled button.  `before` tells what the UPDATE found.
approve_voter_finish(k, store_ok) ==
    /\ k \in 1..Len(pending)
    /\ pending[k].op = "approve_voter" /\ pending[k].pc = "update"
    /\ IF ~store_ok
       THEN /\ last' = Response("approve_voter", "InternalServerError")
            /\ UNCHANGED <<new_voters, tasks>>
       ELSE /\ Len(tasks) < MaxTasks
            /\ new_voters' = approve_voter_execute(pending[k].voter_id)
            /\ tasks' = Spawn(pending[k].room_id,
                              approve_voter_events(pending[k].voter_id))
            /\ last' = [Response("approve_voter", "Ok") EXCEPT !.before =
                    IF pending[k].voter_id \notin DOMAIN new_voters THEN "no row"
                    ELSE IF new_voters[pending[k].voter_id].approved THEN "approved"
                    ELSE "unapproved"]
    /\ pending' = Finish(k)
    /\ UNCHANGED <<new_rooms, rooms_rowid, voters_rowid, timers, map, subs,
                   old_vars>>

\* The rejection vote returns from its first SELECT and its check, or "Ok".
vote_check(voter_id, voter_code) ==
    IF VoterById(voter_id) = {} THEN "InternalServerError"
    ELSE IF voter_code # new_voters[voter_id].voter_code THEN "NotVoter"
    ELSE "Ok"

\* vote's room query without its status filter.
vote_select_room_any_status(room_id) == RoomById(room_id)

\* The rooms vote finds for the voter's room id.
vote_select_room(room_id) == RoomByIdStatus(room_id, 1)

\* vote comparing the two lists as sets.
vote_options_match_as_sets(room_options, body_options) ==
    {room_options[i] : i \in 1..Len(room_options)}
        = {body_options[i] : i \in 1..Len(body_options)}

\* Whether vote takes the body's options for the room's.
vote_options_match(room_options, body_options) ==
    room_options = sort(body_options)

\* The rejection vote returns from its second SELECT and the comparison of
\* the options, or "Ok".
vote_room_check(room_id, options) ==
    IF vote_select_room(room_id) = {} THEN "InternalServerError"
    ELSE IF ~vote_options_match(from_str(new_rooms[room_id].options), options)
         THEN "UnknownOptions"
    ELSE "Ok"

\* An UPDATE that keeps a ballot already stored.
vote_update_keep_first(voter_id, options) ==
    IF new_voters[voter_id].options = NULL
    THEN [new_voters EXCEPT ![voter_id].options = {to_string(options)}]
    ELSE new_voters

\* UPDATE new_voters SET options = ?1 WHERE id = ?2, the row being there.
vote_update(voter_id, options) ==
    [new_voters EXCEPT ![voter_id].options = {to_string(options)}]

\* vote's UPDATE as the store runs it: a statement that fails, or whose id
\* has no row any more, changes nothing.
vote_execute(voter_id, options, store_ok) ==
    IF store_ok /\ voter_id \in DOMAIN new_voters
    THEN vote_update(voter_id, options)
    ELSE new_voters

\* What vote's spawned task does, in order: send NewVote, count, send the count.
vote_events(voter_id) == <<NewVote(voter_id), CountVotesQuery>>

\* POST /voters/:id/vote, its first statement: the SELECT of the voter, and
\* the comparison of the cookie.
vote_begin(voter_id, voter_code, options, store_ok) ==
    LET res == IF store_ok THEN vote_check(voter_id, voter_code)
               ELSE "InternalServerError"
    IN  IF res # "Ok"
        THEN /\ last' = Response("vote", res)
             /\ UNCHANGED <<new_vars, old_vars>>
        ELSE /\ pending' = Append(pending,
                    [Request("vote", "room") EXCEPT
                        !.voter_id = voter_id,
                        !.room_id = new_voters[voter_id].room_id,
                        !.options = options])
             /\ last' = Response("vote", "Pending")
             /\ UNCHANGED <<new_rooms, new_voters, rooms_rowid, voters_rowid,
                            timers, tasks, map, subs, old_vars>>

\* POST /voters/:id/vote, its second statement: the SELECT of the options of
\* the voter's room with status 1, and the comparison with the body's.
vote_room(k, store_ok) ==
    /\ k \in 1..Len(pending)
    /\ pending[k].op = "vote" /\ pending[k].pc = "room"
    /\ LET res == IF store_ok
                  THEN vote_room_check(pending[k].room_id, pending[k].options)
                  ELSE "InternalServerError"
       IN  IF res # "Ok"
           THEN /\ last' = Response("vote", res)
                /\ pending' = Finish(k)
           ELSE /\ last' = Response("vote", "Pending")
                /\ pending' = [pending EXCEPT ![k].pc = "update"]
    /\ UNCHANGED <<new_rooms, new_voters, rooms_rowid, voters_rowid, timers,
                   tasks, map, subs, old_vars>>

\* POST /voters/:id/vote, its third statement and what follows: the UPDATE,
\* whose result is logged and dropped (let _ = ...), the spawn of the
\* publishing task and the thanks.  `before` tells what the voter's row held.
vote_finish(k, store_ok) ==
    /\ k \in 1..Len(pending)
    /\ pending[k].op = "vote" /\ pending[k].pc = "update"
    /\ Len(tasks) < MaxTasks
    /\ LET r == pending[k]
       IN  /\ new_voters' = vote_execute(r.voter_id, r.options, store_ok)
           /\ tasks' = Spawn(r.room_id, vote_events(r.voter_id))
           /\ last' = [Response("vote", "Ok") EXCEPT !.before =
                    IF r.voter_id \notin DOMAIN new_voters THEN "no row"
                    ELSE IF new_voters[r.voter_id].options = NULL THEN "no ballot"
                    ELSE IF new_voters[r.voter_id].options = {to_string(r.options)}
                         THEN "same ballot"
                    ELSE "other ballot"]
    /\ pending' = Finish(k)
    /\ UNCHANGED <<new_rooms, rooms_rowid, voters_rowid, timers, map, subs,
                   old_vars>>

\* ------------------------------------------------------------ mod events

\* broadcast::channel(16)
Capacity == 16

\* Events a stream may hold unread.
MaxPending == 2

\* entry(room_id).insert: a new channel replaces the room's at every call.
entry_insert(room_id) ==
    [k \in DOMAIN map \cup {room_id} |->
        IF k = room_id
        THEN LET used == {subs[i].chan : i \in 1..Len(subs)}
                             \cup {map[r] : r \in DOMAIN map} \cup {0}
             IN  (CHOOSE c \in used : \A d \in used : d <= c) + 1
        ELSE map[k]]

\* map.entry(room_id).or_insert_with(|| broadcast::channel(16).0): the map
\* with the room's Sender, created when the room has none yet.  A channel is
\* named by the order of its creation.
entry(room_id) ==
    IF room_id \in DOMAIN map THEN map
    ELSE [k \in DOMAIN map \cup {room_id} |->
            IF k = room_id THEN Cardinality(DOMAIN map) + 1 ELSE map[k]]

\* Send that reaches the Receivers of every room's channel.
Send_every_room(room_id, event) ==
    [i \in 1..Len(subs) |-> [subs[i] EXCEPT !.queue = Append(@, event)]]

\* Send that refuses the event to a Receiver with Capacity unread ones.
Send_drop_newest(room_id, event) ==
    [i \in 1..Len(subs) |->
        IF subs[i].chan # entry(room_id)[room_id] THEN subs[i]
        ELSE IF Len(subs[i].queue) < Capacity
        THEN [subs[i] EXCEPT !.queue = Append(@, event)]
        ELSE [subs[i] EXCEPT !.lagged = TRUE]]

\* tx.send(event) on the room's Sender `tx`: every Receiver of that channel gets the
\* event behind those it has not read yet; with no Receiver nothing is kept.
\* The channel keeps the last Capacity values: a Receiver that has Capacity
\* of them unread loses the oldest to make room and will be told so
\* (RecvError::Lagged; `lagged` keeps that it is due, not the number missed,
\* which is only logged).  The sender never waits.
Send(room_id, event) ==
    [i \in 1..Len(subs) |->
        IF subs[i].chan # entry(room_id)[room_id] THEN subs[i]
        ELSE IF Len(subs[i].queue) < Capacity
        THEN [subs[i] EXCEPT !.queue = Append(@, event)]
        ELSE [subs[i] EXCEPT !.queue = Append(Tail(@), event), !.lagged = TRUE]]

\* No stream of the room holds MaxPending unread events.
CanSend(room_id) ==
    \A i \in 1..Len(subs) :
        subs[i].room_id = room_id => Len(subs[i].queue) < MaxPending

\* Broadcasters::send_event: the room's Sender is created on first use; with
\* no receiver the event is dropped.
send_event(room_id, event) ==
    /\ map' = entry(room_id)
    /\ subs' = Send(room_id, event)
    /\ last' = Response("send_event", "Ok")

\* The tasks left when task i has done its first step, which becomes `next`
\* (or nothing when `next` is empty).
Advance(i, next) ==
    LET rest == next \o Tail(tasks[i].steps)
    IN  IF rest = <<>>
        THEN SubSeq(tasks, 1, i - 1) \o SubSeq(tasks, i + 1, Len(tasks))
        ELSE [tasks EXCEPT ![i].steps = rest]

\* One await of a spawned task: a send_event, or the vote task's count query
\* (if let Ok(votes) = ...: the count is sent only when the query succeeds).
task_step(i, store_ok) ==
    LET t == tasks[i]
        step == Head(t.steps)
    IN  IF step = CountVotesQuery
        THEN /\ tasks' = Advance(i, IF store_ok
                                    THEN <<NewVoteCount(CountVotes(t.room_id))>>
                                    ELSE <<>>)
             /\ last' = Response("count_votes", IF store_ok THEN "Ok" ELSE "Err")
             /\ UNCHANGED <<new_rooms, new_voters, rooms_rowid, voters_rowid,
                            timers, map, subs, pending, old_vars>>
        ELSE /\ send_event(t.room_id, step)
             /\ tasks' = Advance(i, <<>>)
             /\ UNCHANGED <<new_rooms, new_voters, rooms_rowid, voters_rowid,
                            timers, pending, old_vars>>

\* utils::pluralize
pluralize(num, singular, plural) == IF num = 1 THEN singular ELSE plural

\* An SSE event: Event::default().event(name).data(html); a name built from
\* an id ("voter-approved:{id}", "vote:{id}") is the pair of its prefix and
\* the id, a fixed name has id 0.  The data keeps what the markup shows: the
\* element, the number, the word and the options.
Event(name, id, data) == [event |-> <<name, id>>, data |-> data]
Html(tag, n, text, options) == [tag |-> tag, n |-> n, text |-> text, options |-> options]

\* names::PING_EVENT with no data
Ping == Event("ping", 0, NoData)

\* The closure of events::handler's stream.map: match (event, admin, voter).
Project(event, admin, voter) ==
    IF /\ event.kind = "NewVoterCount"
       /\ \/ admin # None /\ voter = None
          \/ admin = None /\ voter # None
    THEN Event("voter-count", 0,
               Html("stat", event.n, pluralize(event.n, "voter", "voters"), <<>>))
    ELSE IF event.kind = "NewVoter" /\ admin # None /\ voter = None
    THEN Event("voter", 0, Html("APPROVE", event.n, "VOTER ID", <<>>))
    ELSE IF event.kind = "VoterApproved" /\ admin # None /\ voter = None
    THEN Event("voter-approved", event.n, Html("button", 0, "APPROVED", <<>>))
    ELSE IF event.kind = "VoterApproved" /\ admin = None /\ voter = Some(event.n)
    THEN Event("voter-approved", event.n,
               Html("alert", 0, "VOTER HAS BEEN APPROVED.", <<>>))
    ELSE IF event.kind = "VoteStarted" /\ admin = None /\ voter # None
    THEN Event("vote-started", 0,
               Html("form", CHOOSE voter_id \in voter : TRUE, "START VOTING",
                    event.options))
    ELSE IF event.kind = "NewVote" /\ admin # None /\ voter = None
    THEN Event("vote", event.n, Html("boxed", 0, "VOTED", <<>>))
    ELSE IF event.kind = "NewVoteCount" /\ admin # None /\ voter = None
    THEN Event("vote-count", 0,
               Html("stat", event.n, pluralize(event.n, "vote", "votes"), <<>>))
    ELSE Ping

\* Streams that may be open at once.
MaxSubs == 2

\* handler's first match: the room is read only when the admin_code cookie
\* is present; fetch_one fails when there is no such room.
handler_admin_select(room_id, admin_code) ==
    admin_code = None \/ room_id \in DOMAIN new_rooms

\* The admin the first match yields from the room it read.
handler_admin(room_id, admin_code) ==
    IF admin_code = Some(new_rooms[room_id].admin_code)
    THEN Some(room_id)
    ELSE None

\* handler's second match: SELECT id FROM new_voters WHERE voter_code = ?1,
\* fetch_optional, of any room.
handler_voter(voter_code) ==
    {v \in DOMAIN new_voters : voter_code = Some(new_voters[v].voter_code)}

\* get_stream that subscribes to the Sender made first, whatever its room.
get_stream_first_sender(room_id, admin, voter) ==
    /\ map' = entry(room_id)
    /\ subs' = Append(subs, [room_id |-> room_id, chan |-> 1,
                             admin |-> admin, voter |-> voter,
                             queue |-> <<>>, lagged |-> FALSE])

\* Broadcasters::get_stream: the room's Sender is created on first use and
\* subscribed to; the Receiver starts behind the last event sent.
get_stream(room_id, admin, voter) ==
    /\ map' = entry(room_id)
    /\ subs' = Append(subs, [room_id |-> room_id, chan |-> entry(room_id)[room_id],
                             admin |-> admin, voter |-> voter,
                             queue |-> <<>>, lagged |-> FALSE])

\* GET rooms/<room_id>/listen with the optional cookies admin_code and
\* voter_code, up to its first await.  With the admin_code cookie that is the
\* SELECT of the room; without it and with the voter_code cookie, the SELECT
\* of the voter; with neither, get_stream.
handler_begin(room_id, admin_code, voter_code, store_ok) ==
    IF admin_code # None
    THEN IF ~store_ok \/ ~handler_admin_select(room_id, admin_code)
         THEN /\ last' = Response("handler", "InternalServerError")
              /\ UNCHANGED <<new_vars, old_vars>>
         ELSE /\ pending' = Append(pending,
                    [Request("handler", IF voter_code # None THEN "voter" ELSE "stream")
                        EXCEPT !.room_id = room_id,
                               !.admin = handler_admin(room_id, admin_code),
                               !.voter_code = voter_code])
              /\ last' = Response("handler", "Pending")
              /\ UNCHANGED <<new_rooms, new_voters, rooms_rowid, voters_rowid,
                             timers, tasks, map, subs, old_vars>>
    ELSE IF voter_code # None
    THEN IF ~store_ok
         THEN /\ last' = Response("handler", "InternalServerError")
              /\ UNCHANGED <<new_vars, old_vars>>
         ELSE /\ pending' = Append(pending,
                    [Request("handler", "stream")
                        EXCEPT !.room_id = room_id,
                               !.voter = handler_voter(voter_code),
                               !.voter_code = voter_code])
              /\ last' = Response("handler", "Pending")
              /\ UNCHANGED <<new_rooms, new_voters, rooms_rowid, voters_rowid,
                             timers, tasks, map, subs, old_vars>>
    ELSE /\ Len(subs) < MaxSubs
         /\ get_stream(room_id, None, None)
         /\ last' = Response("handler", "Ok")
         /\ UNCHANGED <<new_rooms, new_voters, rooms_rowid, voters_rowid, timers,
                        tasks, pending, old_vars>>

\* GET rooms/<room_id>/listen with both cookies, its second await: the
\* SELECT of the voter.
handler_voter_select(k, store_ok) ==
    /\ k \in 1..Len(pending)
    /\ pending[k].op = "handler" /\ pending[k].pc = "voter"
    /\ IF ~store_ok
       THEN /\ last' = Response("handler", "InternalServerError")
            /\ pending' = Finish(k)
       ELSE /\ last' = Response("handler", "Pending")
            /\ pending' = [pending EXCEPT
                    ![k].pc = "stream",
                    ![k].voter = handler_voter(pending[k].voter_code)]
    /\ UNCHANGED <<new_rooms, new_voters, rooms_rowid, voters_rowid, timers,
                   tasks, map, subs, old_vars>>

\* GET rooms/<room_id>/listen, its last await: get_stream and the reply, the
\* stream of the room's events mapped for this admin and voter.
handler_finish(k) ==
    /\ k \in 1..Len(pending)
    /\ pending[k].op = "handler" /\ pending[k].pc = "stream"
    /\ Len(subs) < MaxSubs
    /\ get_stream(pending[k].room_id, pending[k].admin, pending[k].voter)
    /\ last' = Response("handler", "Ok")
    /\ pending' = Finish(k)
    /\ UNCHANGED <<new_rooms, new_voters, rooms_rowid, voters_rowid, timers,
                   tasks, old_vars>>

\* The i-th stream is polled and its Receiver has something for it.  A
\* Receiver that lagged returns Err(Lagged) once: filter_map logs it and
\* yields nothing, and the stream goes on from the oldest value kept
\* (`before` is "Lagged").  Otherwise the stream yields the oldest event its
\* Receiver has not read, mapped by the closure.
stream_next(i) ==
    /\ i \in 1..Len(subs)
    /\ subs[i].queue # <<>>
    /\ IF subs[i].lagged
       THEN /\ subs' = [subs EXCEPT ![i].lagged = FALSE]
            /\ last' = [Response("stream_next", "Ok") EXCEPT !.before = "Lagged"]
       ELSE /\ subs' = [subs EXCEPT ![i].queue = Tail(@)]
            /\ last' = [Response("stream_next", "Ok") EXCEPT
                           !.out = Project(Head(subs[i].queue), subs[i].admin,
                                           subs[i].voter)]
    /\ UNCHANGED <<new_rooms, new_voters, rooms_rowid, voters_rowid, timers,
                   tasks, map, pending, old_vars>>

\* ---------------------------------------------------------- mod old_rooms
\* main builds old_rooms::routes and drops it (let _home = ...): none of its
\* handlers is served.  What follows is the tally inside old_rooms::end_vote,
\* as a function of the rows of table votes it is given; the handlers of
\* old_rooms::routes come after it.

\* The ballots of a room: SELECT options FROM votes WHERE room_id = ?1, parsed.
RECURSIVE RoomBallots(_, _)
RoomBallots(rows, room_id) ==
    IF rows = <<>> THEN <<>>
    ELSE (IF Head(rows).room_id = room_id
          THEN <<from_str(Head(rows).options)>> ELSE <<>>)
         \o RoomBallots(Tail(rows), room_id)

\* The entry update without its and_modify: the first score of a choice stays.
AddScore_or_insert_only(m, choice, curr_score) ==
    IF choice \in DOMAIN m THEN m ELSE Insert(m, choice, curr_score)

\* The entry update as an insert: the last score of a choice replaces the others.
AddScore_insert(m, choice, curr_score) == Insert(m, choice, curr_score)

\* map.entry(choice).and_modify(|score| *score += curr_score).or_insert(curr_score)
AddScore(m, choice, curr_score) ==
    IF choice \in DOMAIN m
    THEN [m EXCEPT ![choice] = @ + curr_score]
    ELSE Insert(m, choice, curr_score)

\* The inner fold: the choice at index idx of a ballot scores options_len - idx.
RECURSIVE FoldBallot(_, _, _)
FoldBallot(m, options, idx) ==
    IF idx = Len(options) THEN m
    ELSE FoldBallot(AddScore(m, options[idx + 1], Len(options) - idx),
                    options, idx + 1)

\* The outer fold over the ballots, from an empty HashMap.
RECURSIVE FoldBallots(_, _)
FoldBallots(m, ballots) ==
    IF ballots = <<>> THEN m
    ELSE FoldBallots(FoldBallot(m, Head(ballots), 0), Tail(ballots))

scores_map(ballots) == FoldBallots(<<>>, ballots)

\* The orders in which a HashMap with the keys S may be iterated: any.
IterationOrders(S) ==
    {o \in [1..Cardinality(S) -> S] : \A i, j \in DOMAIN o : i # j => o[i] # o[j]}

\* One insertion into a sequence of (option, score) sorted by score, after
\* every pair whose score is <= the new one (sort_by_key is stable).
ScoreInsert(s, x) ==
    LET k == Cardinality({i \in 1..Len(s) : s[i][2] <= x[2]})
    IN  SubSeq(s, 1, k) \o <<x>> \o SubSeq(s, k + 1, Len(s))

RECURSIVE SortByKeyFrom(_, _)
SortByKeyFrom(v, acc) ==
    IF v = <<>> THEN acc ELSE SortByKeyFrom(Tail(v), ScoreInsert(acc, Head(v)))

sort_by_key(v) == SortByKeyFrom(v, <<>>)

reverse(v) == [i \in 1..Len(v) |-> v[Len(v) + 1 - i]]

\* The (option, score) list end_vote renders, for one iteration order of
\* the HashMap.
tally(ballots, order) ==
    LET m == scores_map(ballots)
    IN  reverse(sort_by_key([i \in 1..Len(order) |-> <<order[i], m[order[i]]>>]))


\* The handlers of old_rooms::routes, one action per awaited statement as
\* for the served ones; a request between two statements waits in
\* old_pending.  A room's and a voter's ULID `vid` is named by the row's id.
\* No statement of old_rooms deletes a row.  Of a sender the model keeps what
\* it was sent (its receiver is the stream of an SSE reply).  The handlers
\* that run one SELECT and change nothing (homepage, voter_approved,
\* voting_page) are left out.

\* id of the next row of a table whose rows are never deleted.
NextId(t) == Cardinality(DOMAIN t) + 1

\* admin_code.map(|c| c == room.admin_code).unwrap_or(false)
is_admin(admin_code, room) == admin_code = Some(room.admin_code)

\* map.entry(room_vid).or_default().push(tx)
PushSender(m, room_vid) ==
    [k \in DOMAIN m \cup {room_vid} |->
        IF k = room_vid
        THEN (IF k \in DOMAIN m THEN m[k] ELSE <<>>) \o <<(<<>>)>>
        ELSE m[k]]

\* for tx in txs { let _ = tx.send(event); }: every sender of the room is
\* sent the event; the channels are unbounded.
SendAll(m, room_vid, event) ==
    [m EXCEPT ![room_vid] = [j \in 1..Len(@) |-> Append(@[j], event)]]

\* The requests left when request k of old_rooms has returned.
OldFinish(k) ==
    SubSeq(old_pending, 1, k - 1) \o SubSeq(old_pending, k + 1, Len(old_pending))

\* Request k of old_rooms is this handler's and runs this statement next.
OldAt(k, op, pc) ==
    /\ k \in 1..Len(old_pending)
    /\ old_pending[k].op = op /\ old_pending[k].pc = pc

\* A handler returns at its first statement: nothing of old_rooms changes.
OldReturn(op, res) ==
    /\ last' = Response(op, res)
    /\ UNCHANGED <<new_vars, old_vars>>

\* Request k returns without another change.
OldReturnOf(k, op, res) ==
    /\ last' = Response(op, res)
    /\ old_pending' = OldFinish(k)
    /\ UNCHANGED <<new_vars, old_tables, old_senders>>

\* A handler has passed its first statement and waits for its next one.
OldWait(op, request) ==
    /\ last' = Response(op, "Pending")
    /\ old_pending' = Append(old_pending, request)
    /\ UNCHANGED <<new_vars, old_tables>>

\* The voters of a room: SELECT .. FROM voters WHERE room_id = ?1.
OldVotersOf(room_id) == {v \in DOMAIN voters : voters[v].room_id = room_id}

\* POST /: the first "name" field and the "option" fields of the form (each
\* an Option: None when the form has no such field), the INSERT of the room.
\* The INSERT names no status: the row gets the column's default.
old_rooms_create_room(name, options, store_ok) ==
    IF name = None \/ options = None
    THEN OldReturn("old_rooms::create_room", "NOT_FOUND")
    ELSE IF ~store_ok
    THEN OldReturn("old_rooms::create_room", "CouldNotCreateNewRoom")
    ELSE /\ rooms' = Insert(rooms, NextId(rooms),
                [name |-> CHOOSE n \in name : TRUE,
                 options |-> to_string(CHOOSE o \in options : TRUE),
                 admin_code |-> AdminCode(NextId(rooms)), status |-> 0])
         /\ last' = Response("old_rooms::create_room", "Ok")
         /\ UNCHANGED <<new_vars, voters, votes, old_senders, old_pending>>

\* rooms/<vid>, its first statement: the SELECT of the room.
old_rooms_room_page_begin(room_vid, admin_code, store_ok) ==
    IF ~store_ok \/ room_vid \notin DOMAIN rooms
    THEN OldReturn("old_rooms::room_page", "RoomNotFound")
    ELSE /\ OldWait("old_rooms::room_page",
                [Request("old_rooms::room_page", "voters") EXCEPT
                    !.room_id = room_vid,
                    !.admin = IF is_admin(admin_code, rooms[room_vid])
                              THEN Some(room_vid) ELSE None])
         /\ UNCHANGED old_senders

\* rooms/<vid>, its second statement: the SELECT of the room's voters; the
\* admin gets the page, anyone else goes on to become a voter.
old_rooms_room_page_voters(k, store_ok) ==
    /\ OldAt(k, "old_rooms::room_page", "voters")
    /\ IF ~store_ok
       THEN OldReturnOf(k, "old_rooms::room_page", "VotersNotFound")
       ELSE IF old_pending[k].admin # None
       THEN OldReturnOf(k, "old_rooms::room_page", "Ok")
       ELSE /\ last' = Response("old_rooms::room_page", "Pending")
            /\ old_pending' = [old_pending EXCEPT ![k].pc = "insert"]
            /\ UNCHANGED <<new_vars, old_tables, old_senders>>

\* rooms/<vid>, its third statement: the INSERT of the voter.
old_rooms_room_page_insert(k, store_ok) ==
    /\ OldAt(k, "old_rooms::room_page", "insert")
    /\ IF ~store_ok
       THEN OldReturnOf(k, "old_rooms::room_page", "CouldNotCreateNewVoter")
       ELSE /\ voters' = Insert(voters, NextId(voters),
                    [room_id |-> old_pending[k].room_id, approved |-> FALSE])
            /\ last' = Response("old_rooms::room_page", "Pending")
            /\ old_pending' = [old_pending EXCEPT
                    ![k].pc = "count", ![k].voter_id = NextId(voters)]
            /\ UNCHANGED <<new_vars, rooms, votes, old_senders>>

\* rooms/<vid>, its fourth statement and what follows: the count of the
\* room's voters, the count sent to the room's count senders, the voter sent
\* to the room's voters senders, the voter's page.
old_rooms_room_page_count(k, store_ok) ==
    /\ OldAt(k, "old_rooms::room_page", "count")
    /\ LET room_vid == old_pending[k].room_id
           count == Cardinality(OldVotersOf(room_vid))
       IN  IF ~store_ok
           THEN OldReturnOf(k, "old_rooms::room_page", "CouldNotCreateNewVoter")
           ELSE IF room_vid \notin DOMAIN id_to_count_tx
           THEN OldReturnOf(k, "old_rooms::room_page", "CouldNotGetVoterCountStream")
           ELSE /\ id_to_count_tx' = SendAll(id_to_count_tx, room_vid, count)
                /\ IF room_vid \notin DOMAIN id_to_voter_tx
                   THEN /\ last' = Response("old_rooms::room_page",
                                            "CouldNotGetVotersStream")
                        /\ UNCHANGED id_to_voter_tx
                   ELSE /\ last' = Response("old_rooms::room_page", "Ok")
                        /\ id_to_voter_tx' = SendAll(id_to_voter_tx, room_vid,
                                                     old_pending[k].voter_id)
                /\ old_pending' = OldFinish(k)
                /\ UNCHANGED <<new_vars, old_tables, id_to_room_tx, id_to_votes_tx>>

\* rooms/<vid>/count
old_rooms_count_sse(room_vid) ==
    /\ id_to_count_tx' = PushSender(id_to_count_tx, room_vid)
    /\ last' = Response("old_rooms::count_sse", "Ok")
    /\ UNCHANGED <<new_vars, old_tables, id_to_voter_tx, id_to_room_tx,
                   id_to_votes_tx, old_pending>>

\* rooms/<vid>/voters
old_rooms_voter_sse(room_vid) ==
    /\ id_to_voter_tx' = PushSender(id_to_voter_tx, room_vid)
    /\ last' = Response("old_rooms::voter_sse", "Ok")
    /\ UNCHANGED <<new_vars, old_tables, id_to_count_tx, id_to_room_tx,
                   id_to_votes_tx, old_pending>>

\* rooms/<vid>/listen
old_rooms_room_sse(room_vid) ==
    /\ id_to_room_tx' = PushSender(id_to_room_tx, room_vid)
    /\ last' = Response("old_rooms::room_sse", "Ok")
    /\ UNCHANGED <<new_vars, old_tables, id_to_count_tx, id_to_voter_tx,
                   id_to_votes_tx, old_pending>>

\* rooms/<vid>/votes
old_rooms_recorded_votes_sse(room_vid) ==
    /\ id_to_votes_tx' = PushSender(id_to_votes_tx, room_vid)
    /\ last' = Response("old_rooms::recorded_votes_sse", "Ok")
    /\ UNCHANGED <<new_vars, old_tables, id_to_count_tx, id_to_voter_tx,
                   id_to_room_tx, old_pending>>

\* rooms/<vid>/voters/<vid>/approve, its first statement: the SELECT of the
\* room and the comparison of the cookie.
old_rooms_approve_voter_begin(room_vid, voter_vid, admin_code, store_ok) ==
    IF ~store_ok \/ room_vid \notin DOMAIN rooms
    THEN OldReturn("old_rooms::approve_voter", "RoomNotFound")
    ELSE IF ~is_admin(admin_code, rooms[room_vid])
    THEN OldReturn("old_rooms::approve_voter", "NotAnAdmin")
    ELSE /\ OldWait("old_rooms::approve_voter",
                [Request("old_rooms::approve_voter", "voter") EXCEPT
                    !.room_id = room_vid, !.voter_id = voter_vid])
         /\ UNCHANGED old_senders

\* rooms/<vid>/voters/<vid>/approve, its second statement: the SELECT of the
\* voter's room.
old_rooms_approve_voter_voter(k, store_ok) ==
    /\ OldAt(k, "old_rooms::approve_voter", "voter")
    /\ IF ~store_ok \/ old_pending[k].voter_id \notin DOMAIN voters
       THEN OldReturnOf(k, "old_rooms::approve_voter", "RoomNotFound")
       ELSE IF voters[old_pending[k].voter_id].room_id # old_pending[k].room_id
       THEN OldReturnOf(k, "old_rooms::approve_voter", "VoterNotInRoom")
       ELSE /\ last' = Response("old_rooms::approve_voter", "Pending")
            /\ old_pending' = [old_pending EXCEPT ![k].pc = "update"]
            /\ UNCHANGED <<new_vars, old_tables, old_senders>>

\* rooms/<vid>/voters/<vid>/approve, its third statement: the UPDATE.
old_rooms_approve_voter_update(k, store_ok) ==
    /\ OldAt(k, "old_rooms::approve_voter", "update")
    /\ IF ~store_ok
       THEN OldReturnOf(k, "old_rooms::approve_voter", "CouldNotApproveVoter")
       ELSE /\ voters' = [voters EXCEPT ![old_pending[k].voter_id].approved = TRUE]
            /\ last' = Response("old_rooms::approve_voter", "Ok")
            /\ old_pending' = OldFinish(k)
            /\ UNCHANGED <<new_vars, rooms, votes, old_senders>>

\* GET rooms/<vid>/start, its first statement and what follows: the SELECT of
\* the room, the comparison of the cookie, Start sent to the room's senders.
old_rooms_start_vote_begin(room_vid, admin_code, store_ok) ==
    IF ~store_ok \/ room_vid \notin DOMAIN rooms
    THEN OldReturn("old_rooms::start_vote", "RoomNotFound")
    ELSE IF ~is_admin(admin_code, rooms[room_vid])
    THEN OldReturn("old_rooms::start_vote", "NotAnAdmin")
    ELSE IF room_vid \notin DOMAIN id_to_room_tx
    THEN OldReturn("old_rooms::start_vote", "CouldNotGetVoterCountStream")
    ELSE /\ id_to_room_tx' = SendAll(id_to_room_tx, room_vid, "Start")
         /\ OldWait("old_rooms::start_vote",
                [Request("old_rooms::start_vote", "update") EXCEPT
                    !.room_id = room_vid])
         /\ UNCHANGED <<id_to_count_tx, id_to_voter_tx, id_to_votes_tx>>

\* GET rooms/<vid>/start, its second statement: UPDATE rooms SET status = 1.
old_rooms_start_vote_update(k, store_ok) ==
    /\ OldAt(k, "old_rooms::start_vote", "update")
    /\ IF ~store_ok
       THEN OldReturnOf(k, "old_rooms::start_vote", "CouldNotStartVote")
       ELSE /\ rooms' = [rooms EXCEPT ![old_pending[k].room_id].status = 1]
            /\ last' = Response("old_rooms::start_vote", "Pending")
            /\ old_pending' = [old_pending EXCEPT ![k].pc = "voters"]
            /\ UNCHANGED <<new_vars, voters, votes, old_senders>>

\* GET rooms/<vid>/start, its third statement: the count of the approved
\* voters.
old_rooms_start_vote_voters(k, store_ok) ==
    /\ OldAt(k, "old_rooms::start_vote", "voters")
    /\ IF ~store_ok
       THEN OldReturnOf(k, "old_rooms::start_vote", "VotersNotFound")
       ELSE /\ last' = Response("old_rooms::start_vote", "Pending")
            /\ old_pending' = [old_pending EXCEPT ![k].pc = "votes"]
            /\ UNCHANGED <<new_vars, old_tables, old_senders>>

\* GET rooms/<vid>/start, its fourth statement: the count of the votes, and
\* the page.
old_rooms_start_vote_votes(k, store_ok) ==
    /\ OldAt(k, "old_rooms::start_vote", "votes")
    /\ OldReturnOf(k, "old_rooms::start_vote",
            IF store_ok THEN "Ok" ELSE "CouldNotCountVotes")

\* The rejection submit_vote returns after its first statement, or "Ok":
\* the room of the voter, the "option" fields of the form (None when it has
\* none), the two lists sorted and compared.
old_rooms_submit_vote_check(voter_vid, options) ==
    IF voter_vid \notin DOMAIN voters THEN "RoomNotFound"
    ELSE IF options = None THEN "NOT_FOUND"
    ELSE IF sort(from_str(rooms[voters[voter_vid].room_id].options))
                # sort(CHOOSE o \in options : TRUE)
         THEN "OptionsMismatch"
    ELSE "Ok"

\* POST voters/<vid>/vote, its first statement and the checks.
old_rooms_submit_vote_begin(voter_vid, options, store_ok) ==
    IF ~store_ok
    THEN OldReturn("old_rooms::submit_vote", "RoomNotFound")
    ELSE IF old_rooms_submit_vote_check(voter_vid, options) # "Ok"
    THEN OldReturn("old_rooms::submit_vote",
                   old_rooms_submit_vote_check(voter_vid, options))
    ELSE /\ OldWait("old_rooms::submit_vote",
                [Request("old_rooms::submit_vote", "insert") EXCEPT
                    !.room_id = voters[voter_vid].room_id,
                    !.voter_id = voter_vid,
                    !.json = to_string(CHOOSE o \in options : TRUE)])
         /\ UNCHANGED old_senders

\* POST voters/<vid>/vote, its second statement: the INSERT of the vote.
old_rooms_submit_vote_insert(k, store_ok) ==
    /\ OldAt(k, "old_rooms::submit_vote", "insert")
    /\ IF ~store_ok
       THEN OldReturnOf(k, "old_rooms::submit_vote", "CouldNotCreateVote")
       ELSE /\ votes' = Append(votes,
                    [options |-> old_pending[k].json,
                     room_id |-> old_pending[k].room_id,
                     voter_id |-> old_pending[k].voter_id])
            /\ last' = Response("old_rooms::submit_vote", "Pending")
            /\ old_pending' = [old_pending EXCEPT ![k].pc = "count"]
            /\ UNCHANGED <<new_vars, rooms, voters, old_senders>>

\* POST voters/<vid>/vote, its third statement and what follows: the count
\* of the room's votes, sent to the room's votes senders, and the thanks.
old_rooms_submit_vote_count(k, store_ok) ==
    /\ OldAt(k, "old_rooms::submit_vote", "count")
    /\ LET room_vid == old_pending[k].room_id
           count == Len(RoomBallots(votes, room_vid))
       IN  IF ~store_ok
           THEN OldReturnOf(k, "old_rooms::submit_vote", "CouldNotCountVotes")
           ELSE IF room_vid \notin DOMAIN id_to_votes_tx
           THEN OldReturnOf(k, "old_rooms::submit_vote", "CouldNotGetVoterCountStream")
           ELSE /\ id_to_votes_tx' = SendAll(id_to_votes_tx, room_vid, count)
                /\ last' = Response("old_rooms::submit_vote", "Ok")
                /\ old_pending' = OldFinish(k)
                /\ UNCHANGED <<new_vars, old_tables, id_to_count_tx,
                               id_to_voter_tx, id_to_room_tx>>

\* POST rooms/<vid>/end, its first statement: the SELECT of the room's id,
\* admin_code and name, and the comparison of the cookie.  The room's status
\* is neither selected nor compared.
old_rooms_end_vote_begin(room_vid, admin_code, store_ok) ==
    IF ~store_ok \/ room_vid \notin DOMAIN rooms
    THEN OldReturn("old_rooms::end_vote", "RoomNotFound")
    ELSE IF ~is_admin(admin_code, rooms[room_vid])
    THEN OldReturn("old_rooms::end_vote", "NotAnAdmin")
    ELSE /\ OldWait("old_rooms::end_vote",
                [Request("old_rooms::end_vote", "votes") EXCEPT
                    !.room_id = room_vid])
         /\ UNCHANGED old_senders

\* POST rooms/<vid>/end, its second statement and what follows: the SELECT
\* of the room's votes, the scores, End sent to the room's senders, the page
\* with the scores.
old_rooms_end_vote_finish(k, store_ok) ==
    /\ OldAt(k, "old_rooms::end_vote", "votes")
    /\ LET room_vid == old_pending[k].room_id
           ballots == RoomBallots(votes, room_vid)
       IN  IF ~store_ok
           THEN OldReturnOf(k, "old_rooms::end_vote", "CouldNotGetVotes")
           ELSE IF room_vid \notin DOMAIN id_to_room_tx
           THEN OldReturnOf(k, "old_rooms::end_vote", "CouldNotGetVoterCountStream")
           ELSE /\ \E order \in IterationOrders(DOMAIN scores_map(ballots)) :
                      last' = [Response("old_rooms::end_vote", "Ok") EXCEPT
                                  !.scores = tally(ballots, order)]
                /\ id_to_room_tx' = SendAll(id_to_room_tx, room_vid, "End")
                /\ old_pending' = OldFinish(k)
                /\ UNCHANGED <<new_vars, old_tables, id_to_count_tx,
                               id_to_voter_tx, id_to_votes_tx>>

\* ------------------------------------------------------- mod rejections
\* rejections::handle_rejection: the status code and the message of the
\* error page for a rejection, its branches in their order.  "NOT_FOUND" is a
\* rejection for which err.is_not_found() holds; "BodyDeserializeError" and
\* "MethodNotAllowed" are warp's own.
handle_rejection(err) ==
    IF err = "NOT_FOUND" THEN <<404, "NOT_FOUND">>
    ELSE IF err = "NotAnAdmin" THEN <<400, "NOT_AN_ADMIN">>
    ELSE IF err = "RoomNotFound" THEN <<400, "ROOM_NOT_FOUND">>
    ELSE IF err = "VoterNotInRoom" THEN <<400, "VOTER_NOT_IN_ROOM">>
    ELSE IF err = "VoterNotFound" THEN <<400, "VOTER_NOT_FOUND">>
    ELSE IF err = "VotersNotFound" THEN <<400, "VOTERS_NOT_FOUND">>
    ELSE IF err = "OptionsMismatch" THEN <<400, "OPTIONS_MISMATCH">>
    ELSE IF err = "CouldNotGetVotes" THEN <<400, "COULD_NOT_GET_VOTES">>
    ELSE IF err = "CouldNotGetCount" THEN <<400, "COULD_NOT_GET_COUNT">>
    ELSE IF err = "CouldNotStartVote" THEN <<400, "COULD_NOT_START_VOTE">>
    ELSE IF err = "CouldNotSendCount" THEN <<400, "COULD_NOT_SEND_COUNT">>
    ELSE IF err = "CouldNotCountVotes" THEN <<400, "COULD_NOT_COUNT_VOTES">>
    ELSE IF err = "CouldNotCreateVote" THEN <<400, "COULD_NOT_CREATE_VOTE">>
    ELSE IF err = "CouldNotApproveVoter" THEN <<400, "COULD_NOT_APPROVE_VOTER">>
    ELSE IF err = "CouldNotCreateNewRoom" THEN <<400, "COULD_NOT_CREATE_NEW_ROOM">>
    ELSE IF err = "CouldNotCreateNewVoter" THEN <<400, "COULD_NOT_CREATE_NEW_VOTER">>
    ELSE IF err = "CouldNotGetVoterCountTx"
         THEN <<400, "COULD_NOT_GET_VOTER_COUNT_TRANSMITTER">>
    ELSE IF err = "CouldNotGetVotersStream"
         THEN <<400, "COULD_NOT_GET_VOTERS_STREAM">>
    ELSE IF err = "CouldNotDeserilizeOptions"
         THEN <<400, "COULD_NOT_DESERILIZE_OPTIONS">>
    ELSE IF err = "CouldNotGetVoterCountStream"
         THEN <<400, "COULD_NOT_GET_VOTER_COUNT_STREAM">>
    ELSE IF err = "BodyDeserializeError" THEN <<400, "BAD_REQUEST">>
    ELSE IF err = "MethodNotAllowed" THEN <<405, "METHOD_NOT_ALLOWED">>
    ELSE <<500, "UNHANDLED_REJECTION">>

\* ------------------------------------------------------------------- Next
Ballots == SeqsUpTo(StringSet \ {""}, MaxOptions)

\* The option lists of the rooms of the served application's behaviours: one
\* option, two in an order that is not the sorted one, one option twice, a
\* list with an empty option and the empty list.
Bodies == {<<"A">>, <<"B", "A">>, <<"A", "A">>, <<"A", "">>, <<>>}

\* Requests that may wait between two of their statements at once.
MaxRequests == 1

\* The served application with a store that executes every statement:
\* requests of any body and any cookie, one request at a time between its
\* statements, the expiry and the spawned tasks running in between.
Next ==
    \/ \E name \in Names, options \in Bodies :
            create_room(name, options, TRUE)
    \/ \E room_id \in 1..MaxRooms :
            expire(room_id, TRUE)
    \/ \E room_id \in 1..MaxRooms :
            Len(pending) < MaxRequests /\ join_room_begin(room_id, TRUE)
    \/ \E k \in 1..MaxRequests :
            join_room_insert(k, TRUE)
    \/ \E k \in 1..MaxRequests :
            join_room_finish(k, TRUE)
    \/ \E room_id \in 1..MaxRooms, code \in Codes :
            Len(pending) < MaxRequests /\ start_vote_begin(room_id, code, TRUE)
    \/ \E k \in 1..MaxRequests :
            start_vote_write(k, TRUE)
    \/ \E k \in 1..MaxRequests :
            start_vote_finish(k, TRUE)
    \/ \E room_id \in 1..MaxRooms, code \in Codes :
            end_vote_url(room_id, code)
    \/ \E voter_id \in 1..MaxVoters, code \in Codes :
            Len(pending) < MaxRequests /\ approve_voter_begin(voter_id, code, TRUE)
    \/ \E k \in 1..MaxRequests :
            approve_voter_finish(k, TRUE)
    \/ \E voter_id \in 1..MaxVoters, code \in Codes, options \in Ballots :
            Len(pending) < MaxRequests /\ vote_begin(voter_id, code, options, TRUE)
    \/ \E k \in 1..MaxRequests :
            vote_room(k, TRUE)
    \/ \E k \in 1..MaxRequests :
            vote_finish(k, TRUE)
    \/ \E i \in 1..Len(tasks) :
            task_step(i, TRUE)

Spec == Init /\ [][Next]_vars

\* The served application with every sleeping expiry task scheduled fairly:
\* the runtime wakes a task whose sleep is over.
SpecExpiry == Spec /\ \A room_id \in 1..MaxRooms : WF_vars(expire(room_id, TRUE))

\* Requests that may wait at once where requests overlap.
MaxOverlap == 2

\* Rooms created where requests overlap.
MaxRaceRooms == 1

\* The served application with overlapping requests and a store that may
\* fail any statement: one body for the rooms, the cookies a browser of the
\* room or of the voter holds or a wrong one, and up to MaxOverlap requests
\* between their statements at once.
RaceNext ==
    \/ \E store_ok \in BOOLEAN :
            rooms_rowid < MaxRaceRooms /\ create_room("Lunch", <<"B", "A">>, store_ok)
    \/ \E room_id \in 1..MaxRaceRooms, store_ok \in BOOLEAN :
            expire(room_id, store_ok)
    \/ \E room_id \in 1..MaxRaceRooms, store_ok \in BOOLEAN :
            Len(pending) < MaxOverlap /\ join_room_begin(room_id, store_ok)
    \/ \E k \in 1..MaxOverlap, store_ok \in BOOLEAN :
            join_room_insert(k, store_ok)
    \/ \E k \in 1..MaxOverlap, store_ok \in BOOLEAN :
            join_room_finish(k, store_ok)
    \/ \E room_id \in 1..MaxRaceRooms, bogus \in BOOLEAN, store_ok \in BOOLEAN :
            /\ Len(pending) < MaxOverlap
            /\ start_vote_begin(room_id,
                    IF bogus THEN BogusCode ELSE AdminCode(room_id), store_ok)
    \/ \E k \in 1..MaxOverlap, store_ok \in BOOLEAN :
            start_vote_write(k, store_ok)
    \/ \E k \in 1..MaxOverlap, store_ok \in BOOLEAN :
            start_vote_finish(k, store_ok)
    \/ \E room_id \in 1..MaxRaceRooms :
            end_vote_url(room_id, AdminCode(room_id))
    \/ \E voter_id \in 1..MaxVoters, room_id \in 1..MaxRaceRooms, store_ok \in BOOLEAN :
            /\ Len(pending) < MaxOverlap
            /\ approve_voter_begin(voter_id, AdminCode(room_id), store_ok)
    \/ \E k \in 1..MaxOverlap, store_ok \in BOOLEAN :
            approve_voter_finish(k, store_ok)
    \/ \E voter_id \in 1..MaxVoters, bogus \in BOOLEAN,
          options \in {<<"A", "B">>, <<"B", "A">>, <<"A">>}, store_ok \in BOOLEAN :
            /\ Len(pending) < MaxOverlap
            /\ vote_begin(voter_id, IF bogus THEN BogusCode ELSE VoterCode(voter_id),
                          options, store_ok)
    \/ \E k \in 1..MaxOverlap, store_ok \in BOOLEAN :
            vote_room(k, store_ok)
    \/ \E k \in 1..MaxOverlap, store_ok \in BOOLEAN :
            vote_finish(k, store_ok)
    \/ \E i \in 1..Len(tasks), store_ok \in BOOLEAN :
            task_step(i, store_ok)

SpecRace == Init /\ [][RaceNext]_vars

\* Rooms created while the event streams are observed.
MaxBusRooms == 1

\* Voters that join while the event streams are observed.
MaxBusVoters == 1

\* The cookies a browser of room 1 presents: none, a wrong one, or the one
\* it holds.
BusCookies(kind) ==
    {None, Some(BogusCode),
     Some(IF kind = "admin" THEN AdminCode(1) ELSE VoterCode(1))}

\* The served application with its event streams: one room of the options A
\* and B, requests that carry the cookies a browser of the room holds, and
\* the streams reading what the channel holds for them.  A task is scheduled
\* to send only while every stream of its room has fewer than MaxPending
\* events unread, so no stream lags here.
BusNext ==
    \/ rooms_rowid < MaxBusRooms /\ create_room("Lunch", <<"B", "A">>, TRUE)
    \/ \E room_id \in 1..MaxBusRooms :
            expire(room_id, TRUE)
    \/ \E room_id \in 1..MaxBusRooms :
            /\ Len(pending) < MaxRequests /\ voters_rowid < MaxBusVoters
            /\ join_room_begin(room_id, TRUE)
    \/ \E k \in 1..MaxRequests :
            join_room_insert(k, TRUE)
    \/ \E k \in 1..MaxRequests :
            join_room_finish(k, TRUE)
    \/ \E room_id \in 1..MaxBusRooms :
            /\ Len(pending) < MaxRequests
            /\ start_vote_begin(room_id, AdminCode(room_id), TRUE)
    \/ \E k \in 1..MaxRequests :
            start_vote_write(k, TRUE)
    \/ \E k \in 1..MaxRequests :
            start_vote_finish(k, TRUE)
    \/ \E room_id \in 1..MaxBusRooms :
            end_vote_url(room_id, AdminCode(room_id))
    \/ \E voter_id \in 1..MaxBusVoters, room_id \in 1..MaxBusRooms :
            /\ Len(pending) < MaxRequests
            /\ approve_voter_begin(voter_id, AdminCode(room_id), TRUE)
    \/ \E k \in 1..MaxRequests :
            approve_voter_finish(k, TRUE)
    \/ \E voter_id \in 1..MaxBusVoters, options \in {<<"B", "A">>} :
            /\ Len(pending) < MaxRequests
            /\ vote_begin(voter_id, VoterCode(voter_id), options, TRUE)
    \/ \E k \in 1..MaxRequests :
            vote_room(k, TRUE)
    \/ \E k \in 1..MaxRequests :
            vote_finish(k, TRUE)
    \/ \E i \in 1..Len(tasks) :
            /\ Head(tasks[i].steps) = CountVotesQuery \/ CanSend(tasks[i].room_id)
            /\ task_step(i, TRUE)
    \/ \E room_id \in 1..MaxRooms, admin_code \in BusCookies("admin"),
          voter_code \in BusCookies("voter") :
            /\ Len(pending) < MaxRequests
            /\ handler_begin(room_id, admin_code, voter_code, TRUE)
    \/ \E k \in 1..MaxRequests :
            handler_voter_select(k, TRUE)
    \/ \E k \in 1..MaxRequests :
            handler_finish(k)
    \/ \E i \in 1..MaxSubs :
            stream_next(i)

SpecBus == Init /\ [][BusNext]_vars

\* Voters that join while lagging streams are observed.
MaxLagVoters == 1

\* The served application with streams that may fall behind: one room, its
\* admin approving a voter again and again, each approval publishing
\* VoterApproved, and admin streams that read at any pace or not at all.
LagNext ==
    \/ rooms_rowid < MaxBusRooms /\ create_room("Lunch", <<"B", "A">>, TRUE)
    \/ \E room_id \in 1..MaxBusRooms :
            /\ Len(pending) < MaxRequests /\ voters_rowid < MaxLagVoters
            /\ join_room_begin(room_id, TRUE)
    \/ \E k \in 1..MaxRequests :
            join_room_insert(k, TRUE)
    \/ \E k \in 1..MaxRequests :
            join_room_finish(k, TRUE)
    \/ \E voter_id \in 1..MaxLagVoters, room_id \in 1..MaxBusRooms :
            /\ Len(pending) < MaxRequests
            /\ approve_voter_begin(voter_id, AdminCode(room_id), TRUE)
    \/ \E k \in 1..MaxRequests :
            approve_voter_finish(k, TRUE)
    \/ \E i \in 1..Len(tasks) :
            task_step(i, TRUE)
    \/ \E room_id \in 1..MaxBusRooms :
            /\ Len(pending) < MaxRequests
            /\ handler_begin(room_id, Some(AdminCode(room_id)), None, TRUE)
    \/ \E k \in 1..MaxRequests :
            handler_finish(k)
    \/ \E i \in 1..MaxSubs :
            stream_next(i)

SpecLag == Init /\ [][LagNext]_vars

\* The served application with two rooms of different options and streams
\* on either: a browser listens on any room with the cookies it holds, those
\* of the admin of a room or of a voter of a room, or with none.
CrossNext ==
    \/ \E options \in {<<"A">>, <<"B", "A">>} :
            create_room("Lunch", options, TRUE)
    \/ \E room_id \in 1..MaxRooms :
            /\ Len(pending) < MaxRequests /\ voters_rowid < MaxBusVoters
            /\ join_room_begin(room_id, TRUE)
    \/ \E k \in 1..MaxRequests :
            join_room_insert(k, TRUE)
    \/ \E k \in 1..MaxRequests :
            join_room_finish(k, TRUE)
    \/ \E room_id \in 1..MaxRooms :
            /\ Len(pending) < MaxRequests
            /\ start_vote_begin(room_id, AdminCode(room_id), TRUE)
    \/ \E k \in 1..MaxRequests :
            start_vote_write(k, TRUE)
    \/ \E k \in 1..MaxRequests :
            start_vote_finish(k, TRUE)
    \/ \E i \in 1..Len(tasks) :
            CanSend(tasks[i].room_id) /\ task_step(i, TRUE)
    \/ \E room_id \in 1..MaxRooms, holder \in 1..MaxRooms,
          cookie \in {"none", "admin", "voter"} :
            /\ Len(pending) < MaxRequests
            /\ handler_begin(room_id,
                       IF cookie = "admin" THEN Some(AdminCode(holder)) ELSE None,
                       IF cookie = "voter" THEN Some(VoterCode(1)) ELSE None, TRUE)
    \/ \E k \in 1..MaxRequests :
            handler_finish(k)
    \/ \E i \in 1..MaxSubs :
            stream_next(i)

SpecCross == Init /\ [][CrossNext]_vars

\* ------------------------------------------------------------- the tally
\* The tally on its own, as a function of its input: a room of K options
\* and a votes table of up to MaxBallots rows of the room, each a
\* permutation of the room's options.  The one step computes the scores.

MaxTallyOptions == 3
MaxBallots == 2

\* The option strings of the tally's rooms.
TallyStrings == <<"A", "B", "C", "D">>

\* The room's options: the first k strings.
TallyOptions(k) == [i \in 1..k |-> TallyStrings[i]]

\* The orderings of a list of distinct strings.
Permutations_of(v) ==
    {b \in [1..Len(v) -> {v[i] : i \in 1..Len(v)}] :
        \A i, j \in 1..Len(v) : i # j => b[i] # b[j]}

\* The rows of the votes table for a list of ballots of voter 1 in room 1.
VoteRows(ballots) ==
    [i \in 1..Len(ballots) |->
        [options |-> to_string(ballots[i]), room_id |-> 1, voter_id |-> 1]]

\* The state old_rooms is in when a started room's end is asked: the room
\* with status 1, its one voter, the voter's rows of votes, and the sender
\* of the one rooms/<vid>/listen stream, which old_rooms::start_vote sent
\* Start.  No count, voters or votes stream was opened.
InitTally ==
    /\ new_rooms = <<>> /\ new_voters = <<>>
    /\ rooms_rowid = 0 /\ voters_rowid = 0
    /\ timers = {} /\ tasks = <<>> /\ map = <<>> /\ subs = <<>>
    /\ pending = <<>>
    /\ \E k \in 1..MaxTallyOptions :
          /\ k <= Len(TallyStrings)
          /\ rooms = Insert(<<>>, 1,
                [name |-> "Lunch", options |-> to_string(TallyOptions(k)),
                 admin_code |-> AdminCode(1), status |-> 1])
          /\ \E ballots \in SeqsUpTo(Permutations_of(TallyOptions(k)), MaxBallots) :
                votes = VoteRows(ballots)
    /\ \E approved \in BOOLEAN :
          voters = Insert(<<>>, 1, [room_id |-> 1, approved |-> approved])
    /\ id_to_count_tx = <<>> /\ id_to_voter_tx = <<>> /\ id_to_votes_tx = <<>>
    /\ id_to_room_tx = Insert(<<>>, 1, <<(<<"Start">>)>>)
    /\ old_pending = <<>>
    /\ last = Response("init", "Ok")

\* An Option<String> admin_code cookie: absent, the room's, or another code.
OldCookies == {None, Some(AdminCode(1)), Some(BogusCode)}

\* Events a sender of id_to_room_tx is sent at most.
MaxRoomEvents == 2

\* Requests of old_rooms that may wait between two of their statements.
MaxOldPending == 1

\* No sender of the room was sent MaxRoomEvents events yet.
RoomSendersHaveRoom(room_vid) ==
    room_vid \in DOMAIN id_to_room_tx =>
        \A j \in 1..Len(id_to_room_tx[room_vid]) :
            Len(id_to_room_tx[room_vid][j]) < MaxRoomEvents

\* old_rooms::end_vote applied to that state, whatever the cookie and
\* whether or not the store executes its statements.
TallyNext ==
    \/ \E admin_code \in OldCookies, store_ok \in BOOLEAN :
            /\ Len(old_pending) < MaxOldPending
            /\ RoomSendersHaveRoom(1)
            /\ old_rooms_end_vote_begin(1, admin_code, store_ok)
    \/ \E k \in 1..MaxOldPending, store_ok \in BOOLEAN :
            old_rooms_end_vote_finish(k, store_ok)

SpecTally == InitTally /\ [][TallyNext]_vars

\* ------------------------------------------------------ old_rooms::routes
\* The filter old_rooms::routes builds, on its own: its four sender maps
\* empty as routes() creates them, the tables empty, every handler that
\* changes a table or a sender map, one awaited statement at a time, with
\* a store that may fail any statement.

MaxOldRooms == 1
MaxOldVoters == 1
MaxOldSenders == 1

\* The "name" field of a form: absent or present.
OldNames == {None, Some("Lunch")}

\* The "option" fields of a form, in order: none, or one or two.
OldOptions == {None, Some(<<"A">>), Some(<<"B", "A">>), Some(<<"A", "B">>)}

\* The room has fewer than MaxOldSenders senders in this map.
MaySubscribe(m, room_vid) ==
    room_vid \in DOMAIN m => Len(m[room_vid]) < MaxOldSenders

OldNext ==
    \/ \E name \in OldNames, options \in OldOptions, store_ok \in BOOLEAN :
            /\ NextId(rooms) <= MaxOldRooms
            /\ old_rooms_create_room(name, options, store_ok)
    \/ \E room_vid \in 1..MaxOldRooms, admin_code \in OldCookies,
            store_ok \in BOOLEAN :
            /\ Len(old_pending) < MaxOldPending
            /\ NextId(voters) <= MaxOldVoters
            /\ old_rooms_room_page_begin(room_vid, admin_code, store_ok)
    \/ \E k \in 1..MaxOldPending, store_ok \in BOOLEAN :
            old_rooms_room_page_voters(k, store_ok)
    \/ \E k \in 1..MaxOldPending, store_ok \in BOOLEAN :
            old_rooms_room_page_insert(k, store_ok)
    \/ \E k \in 1..MaxOldPending, store_ok \in BOOLEAN :
            old_rooms_room_page_count(k, store_ok)
    \/ \E room_vid \in 1..MaxOldRooms :
            /\ MaySubscribe(id_to_count_tx, room_vid)
            /\ old_rooms_count_sse(room_vid)
    \/ \E room_vid \in 1..MaxOldRooms :
            /\ MaySubscribe(id_to_voter_tx, room_vid)
            /\ old_rooms_voter_sse(room_vid)
    \/ \E room_vid \in 1..MaxOldRooms :
            /\ MaySubscribe(id_to_room_tx, room_vid)
            /\ old_rooms_room_sse(room_vid)
    \/ \E room_vid \in 1..MaxOldRooms :
            /\ MaySubscribe(id_to_votes_tx, room_vid)
            /\ old_rooms_recorded_votes_sse(room_vid)
    \/ \E room_vid \in 1..MaxOldRooms, voter_vid \in 1..MaxOldVoters,
            admin_code \in OldCookies, store_ok \in BOOLEAN :
            /\ Len(old_pending) < MaxOldPending
            /\ old_rooms_approve_voter_begin(room_vid, voter_vid, admin_code, store_ok)
    \/ \E k \in 1..MaxOldPending, store_ok \in BOOLEAN :
            old_rooms_approve_voter_voter(k, store_ok)
    \/ \E k \in 1..MaxOldPending, store_ok \in BOOLEAN :
            old_rooms_approve_voter_update(k, store_ok)
    \/ \E room_vid \in 1..MaxOldRooms, admin_code \in OldCookies,
            store_ok \in BOOLEAN :
            /\ Len(old_pending) < MaxOldPending
            /\ RoomSendersHaveRoom(room_vid)
            /\ old_rooms_start_vote_begin(room_vid, admin_code, store_ok)
    \/ \E k \in 1..MaxOldPending, store_ok \in BOOLEAN :
            old_rooms_start_vote_update(k, store_ok)
    \/ \E k \in 1..MaxOldPending, store_ok \in BOOLEAN :
            old_rooms_start_vote_voters(k, store_ok)
    \/ \E k \in 1..MaxOldPending, store_ok \in BOOLEAN :
            old_rooms_start_vote_votes(k, store_ok)
    \/ \E voter_vid \in 1..MaxOldVoters, options \in OldOptions,
            store_ok \in BOOLEAN :
            /\ Len(old_pending) < MaxOldPending
            /\ Len(votes) < MaxBallots
            /\ old_rooms_submit_vote_begin(voter_vid, options, store_ok)
    \/ \E k \in 1..MaxOldPending, store_ok \in BOOLEAN :
            old_rooms_submit_vote_insert(k, store_ok)
    \/ \E k \in 1..MaxOldPending, store_ok \in BOOLEAN :
            old_rooms_submit_vote_count(k, store_ok)
    \/ \E room_vid \in 1..MaxOldRooms, admin_code \in OldCookies,
            store_ok \in BOOLEAN :
            /\ Len(old_pending) < MaxOldPending
            /\ RoomSendersHaveRoom(room_vid)
            /\ old_rooms_end_vote_begin(room_vid, admin_code, store_ok)
    \/ \E k \in 1..MaxOldPending, store_ok \in BOOLEAN :
            old_rooms_end_vote_finish(k, store_ok)

SpecOld == Init /\ [][OldNext]_vars
\* ------------------------------------------------------------ properties
Open == 0
Voting == 1
Ended == 2

\* A step answers the request `op` with success / with a rejection.  A step
\* after which the request waits for its next statement does neither.
Succeeded(op) == last'.op = op /\ last'.res = "Ok"
Failed(op) == last'.op = op /\ last'.res \notin {"Ok", "Pending"}

\* A step changes the status of a room only Open -> Voting, as the UPDATE of
\* a start request for that room that has passed its checks.
StatusStep ==
    \A r \in DOMAIN new_rooms \cap DOMAIN new_rooms' :
        new_rooms'[r].status # new_rooms[r].status =>
            /\ new_rooms[r].status = Open /\ new_rooms'[r].status = Voting
            /\ \E k \in 1..Len(pending), store_ok \in BOOLEAN :
                    pending[k].room_id = r /\ start_vote_write(k, store_ok)

\* C1: in every behaviour a room's status changes only Open -> Voting, by a
\* start request that passed its checks, and Voting -> Ended, by an end: it
\* never moves backward, never goes from Open to Ended, and nothing changes
\* the status of an Ended room.  No statement writes Ended, so every change
\* is the start's.
C1_StatusOnlyForward ==
    /\ [](\A r \in DOMAIN new_rooms : new_rooms[r].status \in {Open, Voting, Ended})
    /\ [][StatusStep]_vars

\* The UPDATE of a start has just taken a room from Open to Voting.
C1_Witness ==
    /\ last.op = "start_vote" /\ last.res = "Pending" /\ last.before = "status 0"
    /\ \E r \in DOMAIN new_rooms : new_rooms[r].status = Voting

\* start may go through: the room is there, Open, and the code is its admin's.
StartAllowed(room_id, admin_code) ==
    /\ room_id \in DOMAIN new_rooms
    /\ new_rooms[room_id].status = Open
    /\ admin_code = new_rooms[room_id].admin_code

\* C2: start fails whenever the room is not Open (or absent) or the presented
\* secret differs from the room's admin secret: the request is rejected at
\* its first statement; a start that fails leaves every room's status as it
\* was and publishes nothing (spawns no task).
C2_StartFails ==
    [][ /\ Failed("start_vote") => new_rooms' = new_rooms /\ tasks' = tasks
        /\ last'.op = "start_vote" =>
              \A r \in 1..MaxRooms, c \in Codes :
                  ~StartAllowed(r, c) /\ start_vote_begin(r, c, TRUE) =>
                      Failed("start_vote") /\ pending' = pending
      ]_vars

\* A start was refused although every room there can be exists: they are
\* Voting already.
C2_Witness ==
    /\ last.op = "start_vote" /\ last.res = "InternalServerError"
    /\ rooms_rowid = MaxRooms
    /\ \A r \in 1..MaxRooms : r \in DOMAIN new_rooms /\ new_rooms[r].status = Voting

\* C3: a successful start on an Open room sets the room's status to Voting
\* and hands one VoteStarted event to the publisher, whose options, written
\* as JSON, are the room's stored options: the UPDATE of a start that found
\* the room Open leaves it Voting, and when the start is answered the room,
\* if it is still there, is Voting and the event carries its options.
C3_StartPublishes ==
    [][ last'.op = "start_vote" =>
        /\ \A k \in 1..Len(pending) :
              start_vote_write(k, TRUE) /\ pending[k].room_id \in DOMAIN new_rooms =>
                  new_rooms'[pending[k].room_id].status = Voting
        /\ \A k \in 1..Len(pending) :
              start_vote_finish(k, TRUE) =>
                  LET r == pending[k].room_id
                      t == tasks'[Len(tasks')]
                  IN  /\ Succeeded("start_vote")
                      /\ Len(tasks') = Len(tasks) + 1
                      /\ t.room_id = r
                      /\ Len(t.steps) = 1
                      /\ t.steps[1].kind = "VoteStarted"
                      /\ r \in DOMAIN new_rooms =>
                            /\ new_rooms'[r].status = Voting
                            /\ to_string(t.steps[1].options) = new_rooms'[r].options
      ]_vars

\* A start has just succeeded on a room of two options and its VoteStarted
\* waits to be sent.
C3_Witness ==
    /\ last.op = "start_vote" /\ last.res = "Ok"
    /\ \E i \in 1..Len(tasks) :
        /\ tasks[i].steps[1].kind = "VoteStarted"
        /\ tasks[i].steps[1].options = <<"A", "B">>
        /\ tasks[i].room_id \in DOMAIN new_rooms
        /\ new_rooms[tasks[i].room_id].status = Voting

\* C4 (as the specification states it): join succeeds only while the room is
\* Open; in a room that is Voting, Ended or absent it fails, creates no voter
\* and publishes nothing.
C4_JoinOnlyWhileOpen ==
    [][ /\ Failed("join_room") => new_voters' = new_voters /\ tasks' = tasks
        /\ last'.op = "join_room" =>
              \A r \in 1..MaxRooms :
                  /\ ~(r \in DOMAIN new_rooms /\ new_rooms[r].status = Open)
                  /\ join_room_begin(r, TRUE)
                  => Failed("join_room")
      ]_vars

\* approve may go through: the voter is there and the code is the admin's of
\* the voter's own room.
ApproveAllowed(voter_id, admin_code) ==
    /\ voter_id \in DOMAIN new_voters
    /\ new_voters[voter_id].room_id \in DOMAIN new_rooms
    /\ admin_code = new_rooms[new_voters[voter_id].room_id].admin_code

\* C5: a voter is created with approved = false and no ballot; approved
\* becomes true only by the UPDATE of an approve request for that voter, and
\* an approve request reaches its UPDATE only with the admin secret of the
\* voter's own room; an approve with any other secret fails at its first
\* statement, and a failed approve leaves every voter as it was and publishes
\* nothing; approved never goes back to false.
C5_ApprovedOnlyByOwnAdmin ==
    [][ /\ \A v \in DOMAIN new_voters' \ DOMAIN new_voters :
              ~new_voters'[v].approved /\ new_voters'[v].options = NULL
        /\ \A v \in DOMAIN new_voters' \cap DOMAIN new_voters :
              /\ new_voters[v].approved => new_voters'[v].approved
              /\ ~new_voters[v].approved /\ new_voters'[v].approved =>
                    \E k \in 1..Len(pending) :
                        pending[k].voter_id = v /\ approve_voter_finish(k, TRUE)
        /\ Failed("approve_voter") => new_voters' = new_voters /\ tasks' = tasks
        /\ last'.op = "approve_voter" =>
              \A v \in 1..MaxVoters, c \in Codes :
                  ~ApproveAllowed(v, c) /\ approve_voter_begin(v, c, TRUE) =>
                      Failed("approve_voter") /\ pending' = pending
      ]_vars

\* With two rooms there, an approve was refused for its secret and the voter
\* is still unapproved.
C5_Witness ==
    /\ last.op = "approve_voter" /\ last.res = "NotAnAdmin"
    /\ Cardinality(DOMAIN new_rooms) = 2
    /\ DOMAIN new_voters = {1}
    /\ ~new_voters[1].approved

\* C6: approving a voter who is approved already changes nothing in the store
\* (voters, rooms, row ids) and hands the publisher nothing but the one
\* VoterApproved notification of the voter: no other kind of event is fired.
C6_ApproveIdempotent ==
    [][ last'.op = "approve_voter" => \A k \in 1..Len(pending) :
            /\ approve_voter_finish(k, TRUE)
            /\ pending[k].voter_id \in DOMAIN new_voters
            /\ new_voters[pending[k].voter_id].approved
            => /\ Succeeded("approve_voter")
               /\ new_voters' = new_voters
               /\ new_rooms' = new_rooms
               /\ UNCHANGED <<rooms_rowid, voters_rowid, timers, map>>
               /\ tasks' = Append(tasks,
                        [room_id |-> new_voters[pending[k].voter_id].room_id,
                         steps |-> <<VoterApproved(pending[k].voter_id)>>])
      ]_vars

\* An approve has just succeeded on a voter who was approved before it.
C6_Witness ==
    /\ last.op = "approve_voter" /\ last.res = "Ok"
    /\ last.before = "approved"

\* C7: a ballot submission fails whenever the presented secret differs from
\* the voter's (at its first statement) or the voter's room is not found
\* Voting (at its second); a failed submission stores nothing and hands the
\* publisher nothing (no NewVote, no NewVoteCount).  The second and third
\* conjuncts are stated by contraposition: a step of a submission that is
\* not a refusal is neither a first statement with a wrong secret nor a
\* second statement with the room not Voting.
C7_VoteFails ==
    [][ /\ Failed("vote") => new_voters' = new_voters /\ tasks' = tasks
        /\ (last'.op = "vote" /\ ~(Failed("vote") /\ pending' = pending)) =>
              \A v \in 1..MaxVoters, c \in Codes :
                  ~(v \in DOMAIN new_voters /\ c = new_voters[v].voter_code)
                  => \A b \in Ballots : ~vote_begin(v, c, b, TRUE)
        /\ (last'.op = "vote"
                /\ ~(Failed("vote") /\ Len(pending') = Len(pending) - 1)) =>
              \A k \in 1..Len(pending) :
                  ~(/\ pending[k].room_id \in DOMAIN new_rooms
                    /\ new_rooms[pending[k].room_id].status = Voting)
                  => ~vote_room(k, TRUE)
      ]_vars

\* Every voter there can be is in the one Open room, and a ballot was refused
\* for the room not being found Voting.
C7_Witness ==
    /\ last.op = "vote" /\ last.res = "InternalServerError"
    /\ DOMAIN new_voters = 1..MaxVoters
    /\ \A v \in DOMAIN new_voters :
          /\ new_voters[v].room_id \in DOMAIN new_rooms
          /\ new_rooms[new_voters[v].room_id].status = Open

\* How many times x occurs in the list.
Occurrences(v, x) == Cardinality({i \in 1..Len(v) : v[i] = x})

\* The two lists hold the same strings the same number of times.
SameMultiset(a, b) == \A x \in StringSet : Occurrences(a, x) = Occurrences(b, x)

\* C8: a ballot whose multiset of options differs from the room's is rejected
\* and every ordering of the room's options is accepted (secret and status
\* permitting); so every stored ballot is a permutation of its room's
\* options.
C8_BallotsArePermutations ==
    /\ [](\A r \in DOMAIN new_rooms, b \in Ballots :
            new_rooms[r].status = Voting =>
                (vote_room_check(r, b) = "Ok"
                    <=> SameMultiset(b, from_str(new_rooms[r].options))))
    /\ [](\A v \in DOMAIN new_voters : \A json \in new_voters[v].options :
            /\ new_voters[v].room_id \in DOMAIN new_rooms
            /\ SameMultiset(from_str(json),
                            from_str(new_rooms[new_voters[v].room_id].options)))
    /\ [][ last'.op = "vote" =>
           /\ \A k \in 1..Len(pending) :
                vote_room(k, TRUE) /\ last'.res = "Pending" =>
                    SameMultiset(pending[k].options,
                                 from_str(new_rooms[pending[k].room_id].options))
           /\ \A k \in 1..Len(pending) :
                vote_finish(k, TRUE) /\ pending[k].voter_id \in DOMAIN new_voters =>
                    new_voters'[pending[k].voter_id].options
                        = {to_string(pending[k].options)}
         ]_vars

\* A voter's stored ballot is the room's two options in the other order.
C8_Witness ==
    \E v \in DOMAIN new_voters :
        /\ new_voters[v].options = {to_string(<<"B", "A">>)}
        /\ new_rooms[new_voters[v].room_id].options = to_string(<<"A", "B">>)

\* C9 (as the specification states it): every voter with a stored ballot is
\* approved.
C9_OnlyApprovedBallots ==
    \A v \in DOMAIN new_voters :
        new_voters[v].options # NULL => new_voters[v].approved

\* end may go through, by the specification: the room is there, Voting, and
\* the code is its admin's.
EndAllowed(room_id, admin_code) ==
    /\ room_id \in DOMAIN new_rooms
    /\ new_rooms[room_id].status = Voting
    /\ admin_code = new_rooms[room_id].admin_code

\* C10 (as the specification states it): end fails whenever the room is not
\* Voting or the secret is not the admin's; a failed end changes no status
\* (no row at all), shows no tally and publishes nothing.  For the handler
\* of two statements: a request for no room or with another secret fails at
\* the first, and none answers with success while its room is not Voting.
C10_EndFails ==
    [][ /\ Failed("old_rooms::end_vote") =>
              /\ UNCHANGED <<old_tables, old_senders>>
              /\ last'.scores = <<>>
        /\ last'.op = "old_rooms::end_vote" =>
              \A c \in OldCookies :
                  (/\ ~(1 \in DOMAIN rooms /\ c = Some(rooms[1].admin_code))
                   /\ old_rooms_end_vote_begin(1, c, TRUE))
                      => Failed("old_rooms::end_vote")
        /\ Succeeded("old_rooms::end_vote") =>
              \A k \in 1..Len(old_pending) :
                  old_rooms_end_vote_finish(k, TRUE) =>
                      /\ old_pending[k].room_id \in DOMAIN rooms
                      /\ rooms[old_pending[k].room_id].status = Voting
      ]_vars

\* C11 (as the specification states it): an end asked with the admin's secret
\* on a Voting room succeeds, sets the room's status to Ended and publishes
\* VoteEnded for the room.
C11_EndSetsEnded ==
    [][ last'.op = "end_vote" => \A r \in 1..MaxRooms, c \in Codes :
            EndAllowed(r, c) /\ end_vote_url(r, c) =>
                /\ Succeeded("end_vote")
                /\ new_rooms'[r].status = Ended
                /\ \E i \in 1..Len(tasks') :
                      tasks'[i].room_id = r /\ tasks'[i].steps = <<VoteEnded>>
      ]_vars


\* The score a ballot gives an option: K - i at the 0-indexed position i.
BallotScore(b, opt) ==
    IF \E i \in 1..Len(b) : b[i] = opt
    THEN Len(b) - ((CHOOSE i \in 1..Len(b) : b[i] = opt) - 1)
    ELSE 0

\* The sum of the scores the ballots give an option.
RECURSIVE SumScores(_, _)
SumScores(ballots, opt) ==
    IF ballots = <<>> THEN 0
    ELSE BallotScore(Head(ballots), opt) + SumScores(Tail(ballots), opt)

\* The scores of old_rooms::end_vote's page have been computed.
EndShown == last.op = "old_rooms::end_vote" /\ last.res = "Ok"

\* C12: the tally gives every option of the ballots the sum over the
\* ballots of K - i, i the option's 0-indexed position in the ballot; it lists
\* every option once when there is a ballot; with exactly one ballot it is
\* K, K-1, ..., 1 in that ballot's order.
C12_TallyScores ==
    EndShown =>
        LET ballots == RoomBallots(votes, 1)
            K == Len(from_str(rooms[1].options))
        IN  /\ \A i \in 1..Len(last.scores) :
                  last.scores[i][2] = SumScores(ballots, last.scores[i][1])
            /\ ballots # <<>> =>
                  /\ Len(last.scores) = K
                  /\ {last.scores[i][1] : i \in 1..Len(last.scores)}
                        = {ballots[1][i] : i \in 1..K}
            /\ Len(ballots) = 1 =>
                  last.scores = [i \in 1..K |-> <<ballots[1][i], K - (i - 1)>>]

\* The tally of two ballots over three options has been computed.
C12_Witness ==
    /\ EndShown
    /\ Len(votes) = 2
    /\ Len(last.scores) = 3
    /\ votes[1].options # votes[2].options

\* Where an option is first seen by the accumulation pass over the ballots:
\* its position in the first ballot, every ballot holding every option.
FirstSeen(ballots, opt) == CHOOSE i \in 1..Len(ballots[1]) : ballots[1][i] = opt

\* C13 (as the specification states it): the tally lists the options in
\* descending order of score, options with equal scores in first-seen order of
\* the accumulation pass.
C13_TallyOrder ==
    EndShown /\ votes # <<>> =>
        LET ballots == RoomBallots(votes, 1)
        IN  \A i, j \in 1..Len(last.scores) :
                i < j =>
                    /\ last.scores[i][2] >= last.scores[j][2]
                    /\ last.scores[i][2] = last.scores[j][2] =>
                          FirstSeen(ballots, last.scores[i][1])
                              < FirstSeen(ballots, last.scores[j][1])

\* The list with the elements at i and j exchanged.
Exchange(v, i, j) ==
    [k \in 1..Len(v) |-> IF k = i THEN v[j] ELSE IF k = j THEN v[i] ELSE v[k]]

\* The (option, score) list as a mapping.
AsMap(scores) ==
    [opt \in {scores[i][1] : i \in 1..Len(scores)} |->
        scores[CHOOSE i \in 1..Len(scores) : scores[i][1] = opt][2]]

\* C14: the option -> score mapping of the tally is the same for every
\* reordering of the same ballots, and is the mapping of the sorted list;
\* exchanging two positions inside one ballot changes the scores of both
\* exchanged options.  (The mapping depends on the stored ballots alone, which
\* no step of the tally changes: the reorderings and exchanges are compared
\* once for each list of ballots, in the state before the tally.)
C14_TallyCommutes ==
    LET ballots == RoomBallots(votes, 1)
        m == scores_map(ballots)
    IN  /\ last.op = "init" =>
              /\ \A p \in Permutations_of([i \in 1..Len(ballots) |-> i]) :
                    scores_map([i \in 1..Len(ballots) |-> ballots[p[i]]]) = m
              /\ \A k \in 1..Len(ballots) : \A i, j \in 1..Len(ballots[k]) :
                    i # j =>
                        LET changed == scores_map([ballots EXCEPT ![k] = Exchange(@, i, j)])
                        IN  /\ changed[ballots[k][i]] # m[ballots[k][i]]
                            /\ changed[ballots[k][j]] # m[ballots[k][j]]
        /\ EndShown =>
              /\ AsMap(last.scores) = m
              /\ Len(last.scores) = Cardinality(DOMAIN m)

\* The tally of two different ballots over two options has been computed.
C14_Witness ==
    /\ EndShown
    /\ Len(votes) = 2
    /\ votes[1].options # votes[2].options
    /\ Len(last.scores) = 2

\* C15 (as the specification states it): the tally of a room without ballots
\* holds every option of the room with score 0, in the stored option order.
C15_EmptyTally ==
    EndShown /\ votes = <<>> =>
        LET options == from_str(rooms[1].options)
        IN  last.scores = [i \in 1..Len(options) |-> <<options[i], 0>>]

\* The voters of a room.
VotersOf(t, room_id) == {v \in DOMAIN t : t[v].room_id = room_id}

\* C16: a successful create schedules exactly one expiry for the new room;
\* while a room is in the store its expiry is pending, and a pending expiry
\* goes away only by firing; with the expiry tasks scheduled fairly, every
\* room in the store, and every voter it has, is eventually absent from the
\* store, whatever its status and whatever request is under way.
C16_ExpiryEventually ==
    /\ [](DOMAIN new_rooms \subseteq timers)
    /\ [][ /\ Succeeded("create_room") =>
                /\ rooms_rowid' \notin timers
                /\ timers' = timers \cup {rooms_rowid'}
           /\ last'.op # "expire" => timers \subseteq timers'
           /\ last'.op = "expire" =>
                \A r \in timers : r \notin timers' => expire(r, TRUE)
         ]_vars
    /\ \A r \in 1..MaxRooms :
          (r \in DOMAIN new_rooms) ~>
              (r \notin DOMAIN new_rooms /\ VotersOf(new_voters, r) = {})

\* The expiry of a never started room that had a voter has fired while a
\* request was between two of its statements.
C16_Witness ==
    /\ last.op = "expire" /\ last.before = "status 0"
    /\ voters_rowid >= 1
    /\ new_rooms = <<>> /\ new_voters = <<>>
    /\ pending # <<>>

\* C17: the expiry of a room removes the room and every voter of the room in
\* one step, for a room in any status, and leaves the other rooms and their
\* voters as they were; no step removes a voter and leaves its room, or
\* removes a room and leaves a voter of it.
C17_ExpireAtomic ==
    [][ /\ last'.op = "expire" => \A r \in 1..MaxRooms :
              expire(r, TRUE) =>
                  /\ DOMAIN new_rooms' = DOMAIN new_rooms \ {r}
                  /\ DOMAIN new_voters' = DOMAIN new_voters \ VotersOf(new_voters, r)
                  /\ \A q \in DOMAIN new_rooms' : new_rooms'[q] = new_rooms[q]
                  /\ \A v \in DOMAIN new_voters' : new_voters'[v] = new_voters[v]
        /\ \A v \in DOMAIN new_voters \ DOMAIN new_voters' :
              new_voters[v].room_id \notin DOMAIN new_rooms'
        /\ \A r \in DOMAIN new_rooms \ DOMAIN new_rooms' :
              VotersOf(new_voters', r) = {}
      ]_vars

\* The expiry of a Voting room with every voter there can be has fired.
C17_Witness ==
    /\ last.op = "expire" /\ last.before = "status 1"
    /\ voters_rowid = MaxVoters
    /\ new_rooms = <<>> /\ new_voters = <<>>

\* C18 (as the specification states it): an end asked with the admin's
\* secret on a Voting room leaves the room absent from the store.
C18_EndConverges ==
    [][ \A r \in 1..MaxRooms, c \in Codes :
            EndAllowed(r, c) /\ end_vote_url(r, c) => r \notin DOMAIN new_rooms'
      ]_vars

\* C18 (amended): the expiry takes the room and the voters it had out of
\* the store; end does not: an end leaves every room and every voter in the
\* store as it was, before the expiry and after it, and a room or a voter
\* leaves the store only in the expiry of that room.
C18_OnlyExpireRemoves ==
    [][ /\ last'.op = "expire" => \A r \in 1..MaxRooms :
              expire(r, TRUE) =>
                  /\ r \notin DOMAIN new_rooms' /\ VotersOf(new_voters', r) = {}
        /\ last'.op = "end_vote" => UNCHANGED <<new_rooms, new_voters>>
        /\ \A r \in DOMAIN new_rooms \ DOMAIN new_rooms' :
              last'.op = "expire" /\ expire(r, TRUE)
        /\ \A v \in DOMAIN new_voters \ DOMAIN new_voters' :
              last'.op = "expire" /\ expire(new_voters[v].room_id, TRUE)
      ]_vars

\* An end was asked after the one room there was had expired.
C18_Witness ==
    /\ last.op = "end_vote"
    /\ rooms_rowid = 1 /\ new_rooms = <<>> /\ timers = {}

\* create_room's body is valid.
ValidBody(name, options) ==
    /\ name # ""
    /\ options # <<>>
    /\ \A i \in 1..Len(options) : options[i] # ""

\* C19: create fails with a validation error when the name is empty, the
\* option list is empty or some option is the empty string; a failed create
\* persists no room and schedules no expiry.
C19_CreateValidates ==
    [][ /\ Failed("create_room") =>
              /\ last'.res \in {"EmptyName", "NoOptions", "EmptyOption"}
              /\ new_rooms' = new_rooms /\ rooms_rowid' = rooms_rowid
              /\ timers' = timers
        /\ last'.op = "create_room" =>
              \A name \in Names, options \in Bodies :
                  ~ValidBody(name, options) /\ create_room(name, options, TRUE) =>
                      Failed("create_room")
      ]_vars

\* A create was refused while a room is in the store.
C19_Witness ==
    /\ last.op = "create_room" /\ last.res = "EmptyOption"
    /\ new_rooms # <<>>

\* The list is in ascending String order.
IsSorted(v) == \A i, j \in 1..Len(v) : i < j => StrLe(v[i], v[j])

\* C20: the room a valid create persists is Open and its stored options are
\* the sorted arrangement of the multiset of the options given, none dropped,
\* none deduplicated; no later step changes the stored options of a room.
C20_StoredOptions ==
    [][ /\ Succeeded("create_room") =>
              \A name \in Names, options \in Bodies :
                  create_room(name, options, TRUE) =>
                      LET row == new_rooms'[rooms_rowid']
                          stored == from_str(row.options)
                      IN  /\ rooms_rowid' \notin DOMAIN new_rooms
                          /\ row.status = Open
                          /\ row.options = to_string(stored)
                          /\ Len(stored) = Len(options)
                          /\ SameMultiset(stored, options)
                          /\ IsSorted(stored)
        /\ \A r \in DOMAIN new_rooms \cap DOMAIN new_rooms' :
              new_rooms'[r].options = new_rooms[r].options
      ]_vars

\* A room was created from two equal options and both are stored.
C20_Witness ==
    /\ last.op = "create_room" /\ last.res = "Ok"
    /\ new_rooms[rooms_rowid].options = to_string(<<"A", "A">>)

\* C21: a stream holds only events published to its room after it
\* subscribed.  A stream starts with nothing to read, whatever was published
\* before; afterwards what it has to read changes only by its own reading or
\* by a send_event to its room, which adds the event sent; so an event sent
\* while the room has no stream reaches no stream, then or later.
C21_OnlyLaterEventsOfRoom ==
    [][/\ Len(subs') >= Len(subs)
       /\ \A i \in 1..Len(subs') :
            IF i > Len(subs)
            THEN subs'[i].queue = <<>>
            ELSE /\ subs'[i].room_id = subs[i].room_id
                 /\ \/ subs'[i].queue = subs[i].queue
                    \/ /\ last'.op = "stream_next"
                       /\ subs[i].queue # <<>>
                       /\ subs'[i].queue = Tail(subs[i].queue)
                    \/ /\ last'.op = "send_event"
                       /\ \E t \in 1..Len(tasks) :
                            /\ tasks[t].room_id = subs[i].room_id
                            /\ subs'[i].queue =
                                   Append(subs[i].queue, Head(tasks[t].steps))]_vars

\* A stream of room 1 opened after the join's two events were published has
\* nothing to read, and the stream of room 2 has not got them either.
C21_Witness ==
    /\ last.op = "handler" /\ last.res = "Ok"
    /\ voters_rowid = 1 /\ tasks = <<>>
    /\ Len(subs) = 2
    /\ subs[1].room_id = 2 /\ subs[1].queue = <<>>
    /\ subs[2].room_id = 1 /\ subs[2].queue = <<>>

\* C22 (as the specification states it): once a room has expired its channel
\* is gone from the registry and no stream of the room is left open.
C22_ChannelRemoved ==
    [][\A room_id \in 1..MaxRooms :
            (last'.op = "expire" /\ last'.before # "no row" /\ expire(room_id, TRUE)) =>
                /\ room_id \notin DOMAIN map'
                /\ \A i \in 1..Len(subs') : subs'[i].room_id # room_id]_vars

\* The role the specification gives a stream: Admin when it presented the
\* room's admin secret, else Voter when it presented a voter's secret, else
\* Anonymous.
Role(sub) ==
    IF sub.admin # None THEN "Admin"
    ELSE IF sub.voter # None THEN "Voter"
    ELSE "Anonymous"

\* The (event, role) pairs the specification maps to a rendered payload.
Rendered(event, sub) ==
    \/ event.kind = "NewVoter" /\ Role(sub) = "Admin"
    \/ event.kind = "NewVoterCount" /\ Role(sub) \in {"Admin", "Voter"}
    \/ event.kind = "VoterApproved" /\ Role(sub) = "Admin"
    \/ event.kind = "VoterApproved" /\ Role(sub) = "Voter" /\ sub.voter = Some(event.n)
    \/ event.kind = "VoteStarted" /\ Role(sub) = "Voter"
    \/ event.kind = "NewVote" /\ Role(sub) = "Admin"
    \/ event.kind = "NewVoteCount" /\ Role(sub) = "Admin"

\* The SSE event name of each kind of event.
EventName(event) ==
    CASE event.kind = "NewVoter" -> <<"voter", 0>>
      [] event.kind = "NewVoterCount" -> <<"voter-count", 0>>
      [] event.kind = "VoterApproved" -> <<"voter-approved", event.n>>
      [] event.kind = "VoteStarted" -> <<"vote-started", 0>>
      [] event.kind = "NewVote" -> <<"vote", event.n>>
      [] event.kind = "NewVoteCount" -> <<"vote-count", 0>>
      [] OTHER -> <<"ping", 0>>

\* C23 (as the specification states it): every event a stream reads yields
\* one output: the event's rendered payload for the pairs of event and role
\* of the table, and a heartbeat without data for every other pair.
C23_ProjectionByRole ==
    [][\A i \in 1..Len(subs) :
            stream_next(i) =>
                IF Rendered(Head(subs[i].queue), subs[i])
                THEN /\ last'.out.event = EventName(Head(subs[i].queue))
                     /\ last'.out.data # NoData
                ELSE last'.out = Ping]_vars

\* The cookies of a listen request match nothing: no admin_code or one that
\* is not the room's, and no voter_code or one that is no voter's.
MatchesNothing(room_id, admin_code, voter_code) ==
    /\ \/ admin_code = None
       \/ room_id \notin DOMAIN new_rooms
       \/ admin_code # Some(new_rooms[room_id].admin_code)
    /\ \A v \in DOMAIN new_voters : voter_code # Some(new_voters[v].voter_code)

\* C24 (as the specification states it): a listen request whose cookies match
\* nothing does not fail, and whatever an Anonymous stream reads it yields
\* the heartbeat without data.
C24_AnonymousOnlyHeartbeats ==
    [][/\ \A room_id \in 1..MaxRooms, admin_code \in BusCookies("admin"),
             voter_code \in BusCookies("voter") :
            (/\ last'.op = "handler"
             /\ MatchesNothing(room_id, admin_code, voter_code)
             /\ handler_begin(room_id, admin_code, voter_code, TRUE)) =>
                ~Failed("handler")
       /\ \A i \in 1..Len(subs) :
            (Role(subs[i]) = "Anonymous" /\ stream_next(i)) => last'.out = Ping]_vars

\* The edge events of the specification.
VoteStartable == [kind |-> "VoteStartable", n |-> 0, options |-> <<>>]
VoteEndable == [kind |-> "VoteEndable", n |-> 0, options |-> <<>>]

\* The approved voters of a room, and those with a ballot, in a voters table.
ApprovedCount(t, room_id) ==
    Cardinality({v \in DOMAIN t : t[v].room_id = room_id /\ t[v].approved})
BallotCount(t, room_id) ==
    Cardinality({v \in DOMAIN t : t[v].room_id = room_id /\ t[v].options # NULL})

\* Some spawned task of the room is about to send the event.
Publishes(ts, room_id, event) ==
    \E t \in 1..Len(ts) :
        /\ ts[t].room_id = room_id
        /\ \E k \in 1..Len(ts[t].steps) : ts[t].steps[k] = event

\* C25 (as the specification states it): the approval that takes a room's
\* approved voters from none to one publishes VoteStartable, the ballot that
\* takes its submitted ballots from none to one publishes VoteEndable, and no
\* other step publishes either.
C25_EdgeEvents ==
    [][\A room_id \in 1..MaxRooms :
        /\ Publishes(tasks', room_id, VoteStartable) /\ ~Publishes(tasks, room_id, VoteStartable)
            <=> /\ ApprovedCount(new_voters, room_id) = 0
                /\ ApprovedCount(new_voters', room_id) = 1
        /\ Publishes(tasks', room_id, VoteEndable) /\ ~Publishes(tasks, room_id, VoteEndable)
            <=> /\ BallotCount(new_voters, room_id) = 0
                /\ BallotCount(new_voters', room_id) = 1]_vars

\* The voter is there, the code is the voter's and the room is Voting.
VoteSecretAndStatus(voter_id, voter_code) ==
    /\ voter_id \in DOMAIN new_voters
    /\ voter_code = new_voters[voter_id].voter_code
    /\ new_voters[voter_id].room_id \in DOMAIN new_rooms
    /\ new_rooms[new_voters[voter_id].room_id].status = Voting

\* C26: a voter's valid ballot is accepted whether or not the voter has a
\* ballot stored or another submission under way: it passes the first and
\* the second statement; every submission that got to its write succeeds,
\* and a write leaves the ballot it carries in the voter's row (and no other
\* row changed), whatever the row held: the stored ballot is always that of
\* the last write.
C26_LastWriteWins ==
    [][last'.op = "vote" =>
       /\ \A v \in 1..MaxVoters, b \in {<<"A", "B">>, <<"B", "A">>} :
            (/\ VoteSecretAndStatus(v, VoterCode(v))
             /\ vote_begin(v, VoterCode(v), b, TRUE)) =>
                pending' = Append(pending,
                    [Request("vote", "room") EXCEPT
                        !.voter_id = v, !.room_id = new_voters[v].room_id,
                        !.options = b])
       /\ \A k \in 1..Len(pending) :
            (/\ pending[k].room_id \in DOMAIN new_rooms
             /\ new_rooms[pending[k].room_id].status = Voting
             /\ SameMultiset(pending[k].options, <<"A", "B">>)
             /\ vote_room(k, TRUE)) =>
                pending' = [pending EXCEPT ![k].pc = "update"]
       /\ \A k \in 1..Len(pending) :
            (vote_finish(k, TRUE) /\ pending[k].voter_id \in DOMAIN new_voters) =>
                /\ last'.res = "Ok"
                /\ new_voters' = [new_voters EXCEPT ![pending[k].voter_id].options =
                                        {to_string(pending[k].options)}]]_vars

\* A submission has just overwritten the other ballot of the same voter
\* while a third submission of that voter is still before its write.
C26_Witness ==
    /\ last.op = "vote" /\ last.res = "Ok" /\ last.before = "other ballot"
    /\ Len(pending) = 1
    /\ pending[1].op = "vote" /\ pending[1].pc = "update"
    /\ pending[1].voter_id = 1
    /\ new_voters[1].options # {to_string(pending[1].options)}

\* C27 (as the specification states it): a request in which a statement of
\* the store fails is answered with the internal failure, whichever of its
\* statements it is; none is answered with success.
C27_StoreFailureSurfaces ==
    [][/\ \A r \in 1..MaxRaceRooms :
            (last'.op = "join_room" /\ join_room_begin(r, FALSE)) =>
                last'.res = "InternalServerError"
       /\ \A k \in 1..Len(pending) :
            (\/ join_room_insert(k, FALSE) \/ join_room_finish(k, FALSE)
             \/ start_vote_write(k, FALSE) \/ start_vote_finish(k, FALSE)
             \/ approve_voter_finish(k, FALSE)
             \/ vote_room(k, FALSE) \/ vote_finish(k, FALSE))
                => last'.res = "InternalServerError"]_vars

\* The error page of a request for an id that has no row.
AbsentReply(op) ==
    handle_rejection(CASE op = "start_vote" -> start_vote_check(0, BogusCode)
                       [] op = "approve_voter" -> approve_voter_check(0, BogusCode)
                       [] op = "vote" -> vote_check(0, BogusCode))

\* C28 (as the specification states it): a start, an approval or a ballot
\* refused for its secret, its room or its voter (anything but the ballot's
\* options) gets the error page that a request for an absent id gets.
C28_MismatchLooksAbsent ==
    [][\A op \in {"start_vote", "approve_voter", "vote"} :
            (Failed(op) /\ last'.res # "UnknownOptions") =>
                handle_rejection(last'.res) = AbsentReply(op)]_vars

\* C29: a step that is not the expiry's keeps every row of the rooms and of
\* the voters (it may change or add rows, it removes none), and after an end
\* the room and the voters it had are there.
C29_OnlyExpireDeletes ==
    [][/\ last'.op # "expire" =>
            /\ DOMAIN new_rooms \subseteq DOMAIN new_rooms'
            /\ DOMAIN new_voters \subseteq DOMAIN new_voters'
       /\ last'.op = "end_vote" =>
            new_rooms' = new_rooms /\ new_voters' = new_voters]_vars

\* An end was asked of a Voting room that has a voter with a ballot, and
\* both are stored.
C29_Witness ==
    /\ last.op = "end_vote"
    /\ \E v \in DOMAIN new_voters :
          /\ new_voters[v].options # NULL
          /\ new_voters[v].room_id \in DOMAIN new_rooms
          /\ new_rooms[new_voters[v].room_id].status = Voting

\* Every spawned task holds the events of its operation that it has not sent
\* yet, in the operation's order: a join's NewVoter never ahead of its
\* NewVoterCount, a ballot's count never ahead of its NewVote; and no stream
\* has the NewVoter of a voter to read twice.
JoinEventsInOrder ==
    /\ \A t \in 1..Len(tasks) :
          LET steps == tasks[t].steps
          IN  \/ /\ Len(steps) = 2
                 /\ steps[1].kind = "NewVoterCount" /\ steps[2].kind = "NewVoter"
              \/ /\ Len(steps) = 2
                 /\ steps[1].kind = "NewVote" /\ steps[2] = CountVotesQuery
              \/ /\ Len(steps) = 1
                 /\ \/ steps[1] = CountVotesQuery
                    \/ steps[1].kind \in {"NewVoter", "NewVoteCount",
                                          "VoterApproved", "VoteStarted"}
    /\ \A i \in 1..Len(subs), v \in 1..MaxVoters :
          Cardinality({p \in 1..Len(subs[i].queue) :
                            subs[i].queue[p] = NewVoter(v)}) <= 1

\* C30: the events of one operation reach every stream of the room in the
\* order they are published.  A join hands its task NewVoterCount then
\* NewVoter, a ballot NewVote then the count that becomes NewVoteCount; a task
\* sends the first event it still holds and keeps the rest in order; a send
\* puts the event once, behind what is unread, on every stream of the room and
\* leaves the other streams alone; a stream yields the oldest unread event
\* and drops it alone.  In every state a task holds what is left of its
\* operation's events in their order, and no stream holds a join's NewVoter
\* twice.
C30_PublishOrder ==
    /\ []JoinEventsInOrder
    /\ [][/\ Succeeded("join_room") =>
                LET steps == tasks'[Len(tasks')].steps
                IN  /\ Len(tasks') = Len(tasks) + 1
                    /\ Len(steps) = 2
                    /\ steps[1].kind = "NewVoterCount"
                    /\ steps[2].kind = "NewVoter"
          /\ Succeeded("vote") =>
                \E v \in 1..MaxVoters :
                    /\ Len(tasks') = Len(tasks) + 1
                    /\ tasks'[Len(tasks')].steps = <<NewVote(v), CountVotesQuery>>
          /\ \A t \in 1..Len(tasks) :
                task_step(t, TRUE) =>
                    LET step == Head(tasks[t].steps)
                        rest == Tail(tasks[t].steps)
                    IN  IF step = CountVotesQuery
                        THEN /\ subs' = subs
                             /\ Len(tasks'[t].steps) = 1 + Len(rest)
                             /\ tasks'[t].steps[1].kind = "NewVoteCount"
                        ELSE /\ rest # <<>> => tasks'[t].steps = rest
                             /\ rest = <<>> => Len(tasks') = Len(tasks) - 1
                             /\ Len(subs') = Len(subs)
                             /\ \A i \in 1..Len(subs) :
                                    subs'[i].queue =
                                        IF subs[i].room_id = tasks[t].room_id
                                        THEN subs[i].queue \o <<step>>
                                        ELSE subs[i].queue
          /\ \A i \in 1..Len(subs) :
                stream_next(i) =>
                    /\ last'.out = Project(Head(subs[i].queue), subs[i].admin,
                                           subs[i].voter)
                    /\ \A j \in 1..Len(subs) :
                            subs'[j].queue = IF j = i THEN Tail(subs[i].queue)
                                             ELSE subs[j].queue]_vars

\* An admin's stream that has both events of a join to read, the count first.
C30_Witness ==
    \E i \in 1..Len(subs) :
        /\ subs[i].admin # None /\ subs[i].voter = None
        /\ subs[i].queue = <<NewVoterCount(1), NewVoter(1)>>
        /\ Len(subs) = 2

\* Every spawned task can take its next step now, whatever the streams hold.
PublishNeverWaits ==
    \A t \in 1..Len(tasks) : ENABLED task_step(t, TRUE)

\* C31: a publish completes without waiting on any stream.  A send gives the
\* event to every stream of the room: a stream with fewer than Capacity (16)
\* events unread gets it behind them and loses nothing, whatever the other
\* streams hold; a stream with Capacity unread loses its oldest one alone and
\* keeps the later ones and the new one.  A stream that lost events stays
\* open: the next poll yields no event and no error, and after it the stream
\* reads the events kept, oldest first.
C31_LagLosesOldest ==
    /\ []PublishNeverWaits
    /\ [][/\ Len(subs') >= Len(subs)
          /\ \A t \in 1..Len(tasks) :
                (task_step(t, TRUE) /\ Head(tasks[t].steps) # CountVotesQuery) =>
                    \A i \in 1..Len(subs) :
                        LET q == subs[i].queue
                            e == Head(tasks[t].steps)
                        IN  IF subs[i].room_id # tasks[t].room_id
                            THEN subs'[i] = subs[i]
                            ELSE IF Len(q) < Capacity
                            THEN /\ subs'[i].queue = q \o <<e>>
                                 /\ subs'[i].lagged = subs[i].lagged
                            ELSE /\ subs'[i].queue = Tail(q) \o <<e>>
                                 /\ subs'[i].lagged
          /\ \A i \in 1..Len(subs) :
                (stream_next(i) /\ subs[i].lagged) =>
                    /\ last'.res = "Ok" /\ last'.out = NoOutput
                    /\ subs'[i].queue = subs[i].queue
                    /\ ~subs'[i].lagged
                    /\ subs'[i].room_id = subs[i].room_id]_vars

\* A stream that never read has just lost its oldest event to the 17th
\* send while the other stream of the room has read every event but this one.
C31_Witness ==
    /\ last.op = "send_event"
    /\ Len(subs) = 2
    /\ subs[1].room_id = subs[2].room_id
    /\ subs[1].lagged /\ Len(subs[1].queue) = Capacity
    /\ ~subs[2].lagged /\ Len(subs[2].queue) = 1
    /\ subs[2].queue[1] = subs[1].queue[Capacity]

\* C32 (as the specification states it): a request publishes an event only
\* after it wrote the change the event announces.  A join that publishes has
\* inserted its voter's row; a start that goes on from its UPDATE to its
\* VoteStarted has left the room Voting; an approval that publishes
\* VoterApproved has left the voter approved; a submission that publishes
\* NewVote has left its ballot in the voter's row.  A step of the publisher
\* changes no row of the store.
C32_PublishAfterWrite ==
    [][/\ last'.op = "join_room" =>
            \A k \in 1..Len(pending) :
                (join_room_finish(k, TRUE) \/ join_room_finish(k, FALSE)) =>
                    (Succeeded("join_room") =>
                        pending[k].voter_id \in 1..voters_rowid)
       /\ last'.op = "start_vote" =>
            \A k \in 1..Len(pending) :
                (/\ last'.res = "Pending"
                 /\ start_vote_write(k, TRUE) \/ start_vote_write(k, FALSE)) =>
                    /\ pending[k].room_id \in DOMAIN new_rooms'
                    /\ new_rooms'[pending[k].room_id].status = Voting
       /\ Succeeded("approve_voter") =>
            \A k \in 1..Len(pending) :
                (approve_voter_finish(k, TRUE) \/ approve_voter_finish(k, FALSE)) =>
                    /\ pending[k].voter_id \in DOMAIN new_voters'
                    /\ new_voters'[pending[k].voter_id].approved
       /\ Succeeded("vote") =>
            \A k \in 1..Len(pending) :
                (vote_finish(k, TRUE) \/ vote_finish(k, FALSE)) =>
                    /\ pending[k].voter_id \in DOMAIN new_voters'
                    /\ new_voters'[pending[k].voter_id].options =
                            {to_string(pending[k].options)}
       /\ last'.op \in {"send_event", "count_votes"} =>
            new_rooms' = new_rooms /\ new_voters' = new_voters]_vars

\* C33 (as the specification states it): of the start requests for a room,
\* however they overlap, only one succeeds and publishes VoteStarted: a start
\* gets to its UPDATE of a room in the store, and from there to its
\* VoteStarted, only when it finds the room still Open.
C33_OneStartPerRoom ==
    [][last'.op = "start_vote" =>
        \A k \in 1..Len(pending) :
            (start_vote_write(k, TRUE) /\ pending[k].room_id \in DOMAIN new_rooms) =>
                new_rooms[pending[k].room_id].status = Open]_vars

\* C34 (as the specification states it): the room of every voter in the
\* store is in the store.
C34_VoterHasRoom ==
    \A v \in DOMAIN new_voters : new_voters[v].room_id \in DOMAIN new_rooms

\* C35 (as the specification states it): a stream of room R is given what
\* voters see only when its voter_code cookie is that of a voter of room R;
\* a stream that is not the admin's and whose cookie is that of a voter of
\* another room, or of nobody, yields heartbeats only.
C35_VoterOfRoomOnly ==
    [][\A i \in 1..MaxSubs :
            (/\ stream_next(i)
             /\ ~subs[i].lagged
             /\ subs[i].admin = None
             /\ \A v \in subs[i].voter :
                    new_voters[v].room_id # subs[i].room_id)
                => last'.out = Ping]_vars

\* C36: an event published for a room is delivered to the streams of that
\* room only.  A send of a task of room R gives the event to every stream of
\* R and leaves the streams of the other rooms as they were; so whatever a
\* stream holds is of its room: a NewVoter names a voter of the room, a
\* VoteStarted carries the options of the room, which has been started.
C36_OnlyRoomSubscribers ==
    /\ [](\A i \in 1..Len(subs) : \A j \in 1..Len(subs[i].queue) :
            LET e == subs[i].queue[j]
                r == subs[i].room_id
            IN  /\ e.kind = "NewVoter" =>
                    e.n \in DOMAIN new_voters /\ new_voters[e.n].room_id = r
                /\ e.kind = "VoteStarted" =>
                    /\ r \in DOMAIN new_rooms
                    /\ new_rooms[r].status = Voting
                    /\ e.options = from_str(new_rooms[r].options))
    /\ [][\A t \in 1..Len(tasks) :
            (task_step(t, TRUE) /\ Head(tasks[t].steps) # CountVotesQuery) =>
                \A i \in 1..Len(subs) :
                    subs'[i] = IF subs[i].room_id = tasks[t].room_id
                               THEN [subs[i] EXCEPT !.queue =
                                        Append(@, Head(tasks[t].steps))]
                               ELSE subs[i]]_vars

\* Both rooms have been started while each had a stream: each stream holds
\* the VoteStarted of its own room and nothing of the other's.
C36_Witness ==
    /\ last.op = "send_event" /\ tasks = <<>>
    /\ Len(subs) = 2
    /\ subs[1].room_id = 1 /\ subs[2].room_id = 2
    /\ subs[1].queue = <<VoteStarted(<<"A">>)>>
    /\ subs[2].queue = <<VoteStarted(<<"A", "B">>)>>

\* C37: the registry holds at most one channel per room id, made by the
\* first send_event or get_stream of the room and kept from then on; rooms
\* do not share a channel; every stream is subscribed to the channel the
\* registry holds for its room, the one later publishes use; and the
\* registry is never left locked: a publish and a subscribe can always be
\* taken.
C37_OneChannelPerRoom ==
    /\ [](/\ \A i \in 1..Len(subs) :
                /\ subs[i].room_id \in DOMAIN map
                /\ subs[i].chan = map[subs[i].room_id]
           /\ \A r1, r2 \in DOMAIN map : map[r1] = map[r2] => r1 = r2
           /\ \A t \in 1..Len(tasks) : ENABLED task_step(t, TRUE)
           /\ Len(subs) < MaxSubs =>
                \A room_id \in 1..MaxRooms :
                    ENABLED handler_begin(room_id, None, None, TRUE))
    /\ [][/\ \A r \in DOMAIN map : r \in DOMAIN map' /\ map'[r] = map[r]
           /\ map' # map =>
                /\ last'.op \in {"send_event", "handler"}
                /\ Cardinality(DOMAIN map') = Cardinality(DOMAIN map) + 1]_vars

\* Room 2's channel was made first, by a publish with no stream open; room
\* 1's was made by its first stream, which a later publish reached; the
\* stream opened on room 2 afterwards is on the channel the publish made.
C37_Witness ==
    /\ last.op = "handler" /\ last.res = "Ok"
    /\ DOMAIN map = {1, 2} /\ map[2] = 1 /\ map[1] = 2
    /\ Len(subs) = 2
    /\ subs[1].room_id = 1 /\ subs[1].chan = 2 /\ subs[1].queue # <<>>
    /\ subs[2].room_id = 2 /\ subs[2].chan = 1

\* The ballots stored for the voters of a room, one per voter with a
\* ballot, by voter id.
RECURSIVE StoredBallots(_, _)
StoredBallots(room_id, n) ==
    IF n = 0 THEN <<>>
    ELSE StoredBallots(room_id, n - 1) \o
         (IF /\ n \in DOMAIN new_voters
             /\ new_voters[n].room_id = room_id
             /\ new_voters[n].options # NULL
          THEN <<from_str(CHOOSE o \in new_voters[n].options : TRUE)>>
          ELSE <<>>)

\* C38 (as the specification states it): the end of a Voting room by its
\* admin shows a tally that counts one ballot per voter who submitted, the
\* one the voter's row holds: the scores are those of the stored ballots.
C38_OneBallotPerVoter ==
    [][last'.op = "end_vote" =>
        \A room_id \in 1..MaxRooms, admin_code \in Codes :
            (EndAllowed(room_id, admin_code) /\ end_vote_url(room_id, admin_code)) =>
                \E order \in IterationOrders(
                        DOMAIN scores_map(StoredBallots(room_id, MaxVoters))) :
                    last'.scores = tally(StoredBallots(room_id, MaxVoters), order)
      ]_vars

\* C39 (as the specification states it): the tally is computed once and is
\* final: after the end of a Voting room by its admin the room takes no
\* further end and no further ballot (it is not Voting any more), so that
\* its stored ballots, and a tally computed from them again, stay as they
\* were.
C39_TallyFinal ==
    [][last'.op = "end_vote" =>
        \A room_id \in 1..MaxRooms, admin_code \in Codes :
            (EndAllowed(room_id, admin_code) /\ end_vote_url(room_id, admin_code)) =>
                /\ room_id \in DOMAIN new_rooms'
                /\ new_rooms'[room_id].status # Voting]_vars

\* The sum of the scores of a tally.
RECURSIVE TotalScore(_)
TotalScore(scores) ==
    IF scores = <<>> THEN 0 ELSE Head(scores)[2] + TotalScore(Tail(scores))

\* C40 (as the specification states it): the tally of N counted ballots over
\* the K options of the room lists every option of the room with a score
\* from N to N*K, and the scores add up to N*K*(K+1)/2.
C40_ScoreBounds ==
    EndShown =>
        LET options == from_str(rooms[1].options)
            N == Len(RoomBallots(votes, 1))
            K == Len(options)
        IN  /\ \A i \in 1..K :
                  \E j \in 1..Len(last.scores) :
                      /\ last.scores[j][1] = options[i]
                      /\ N <= last.scores[j][2]
                      /\ last.scores[j][2] <= N * K
            /\ TotalScore(last.scores) = (N * K * (K + 1)) \div 2
====
